---------------------------- MODULE Spec2Model ----------------------------
(***************************************************************************)
(* A model of the pravenc-md scripts: the article downloader               *)
(* (scrape_pravenc.py: single article, pagination follower, content        *)
(* flattener, URL absolutizer), the batch driver (batch_scrape.py), the    *)
(* listing crawl (extract_urls.py) and the Unicode substitution pass       *)
(* (convert_church_slavonic_to_unicode.py).                                *)
(*                                                                         *)
(* Strings whose characters matter are sequences of one-character strings. *)
(* The entry points are run by the specification Spec (one entry point per *)
(* behaviour, chosen in Init); the pure transforms have specifications of  *)
(* their own (SpecFlat, SpecAbs, SpecConv) that step through their loops.  *)
(***************************************************************************)
EXTENDS Integers, Sequences, FiniteSets, TLC

\* ------------------------------------------------------------------ bounds

NumUrls == 2        \* article URLs of the modelled site
MaxCount == 3       \* article_count values above this are identified
MaxBatch == 3       \* URLs in a batch file
MaxPages == 3       \* last listing page of a crawl
MaxFiles == 2       \* Markdown files in the articles directory
MaxRefs == 2        \* image references in one Markdown file

\* ------------------------------------------------------- sequence helpers

Range(s) == {s[k] : k \in DOMAIN s}

SeqsUpTo(S, n) == UNION {[1..k -> S] : k \in 0..n}

Min2(a, b) == IF a < b THEN a ELSE b

VARIABLES
    mode,             \* the entry point of this run
    pc,               \* "loop" inside the entry point's loop, "done" after return
    rc,               \* the entry point's return value (process exit code)
    summary,          \* the figures of the final summary print, by name
    errout,           \* whether anything was printed to sys.stderr
    failedItems,      \* history: units of work (pages, URLs, files) that failed
    slept,            \* history: a sleep completed since the last request
    stop,             \* history: which exit of the entry point's loop was taken
    last_fetch,       \* history: what the latest fetch_html call did
    \* scrape_pravenc.py
    site,             \* the href of each page's "next article" link (NoUrl: none)
    current_url,
    article_count,
    saved,            \* URLs whose Markdown file was written by save_markdown
    saves,            \* history: save_markdown calls that returned, up to MaxCount
    tick,             \* history: parity of the follower's loop iterations
    \* batch_scrape.py
    url_file,         \* "ok", or why the URL file gave no list
    urls, delay, i, successful, failed,
    attempted,        \* history: URLs handed to subprocess.run, in order
    \* extract_urls.py
    start_page, end_page, page_num, all_urls,
    output_file,      \* lines of the written URL file (NoFile: not written)
    fetched_pages,    \* history: the listing pages requested, in order
    \* convert_church_slavonic_to_unicode.py, process_markdown_files
    dir_exists, md_files, dry_run, file_idx, total_conversions, processed_files,
    written,          \* indices of the files written back
    unread,           \* history: indices of the files that could not be read
    \* absolutize_urls
    abs_base,         \* base_url
    abs_tree,         \* the content subtree's link and media tags
    abs_orig,         \* history: the tree before the first run
    abs_once,         \* history: the tree after the first run
    abs_runs,         \* history: runs of absolutize_urls so far
    \* process_nested_content
    reference_level,  \* the number of "#" of reference_prefix
    flat_children,    \* content_div.children
    flat_idx,         \* position of the loop in flat_children
    current_section,
    markdown_parts,
    flat_src,         \* history: the child each fragment was emitted for
    flat_pc,          \* "loop" in the loop over the children, then "done"
    \* convert_church_slavonic_images
    mapping,
    code_sequence,    \* match.group(2) of one matched image reference
    conv_out,         \* what replace_image returned for it
    conv_pc,          \* "match" before replace_image ran, then "done"
    \* extract_fields, the authors
    author_els,       \* the text of each div.author, in document order
    unique_authors,
    author_html,
    auth_pc,          \* "call" before the authors are extracted, then "done"
    \* process_content_with_references, the heading level
    heading_levels,
    level_pc,         \* "call" before reference_level is set, then "done"
    \* build_front_matter
    fm_args,          \* the arguments, by name
    front_matter,     \* the keys and values of the YAML block, in order
    front_pc,         \* "call" before build_front_matter ran, then "done"
    \* url_to_basename
    name_url,         \* url
    base_name,        \* the return value
    name_pc,          \* "call" before url_to_basename ran, then "done"
    \* process_content_with_references, the loop over the body
    reference_prefix, \* the number of "#" of reference_prefix
    body_children,    \* content_el.children
    body_idx,         \* position of the loop in body_children
    body_parts,       \* markdown_parts of process_content_with_references
    body_src,         \* history: the node each fragment was emitted for
    body_from,        \* history: the child of the body each fragment came from
    content_md,       \* the return value
    body_pc,          \* "loop" in the loop over the children, then "done"
    \* save_markdown over the URLs of one run
    save_urls,        \* the URLs the run comes to, in order
    save_idx,         \* position of the run in save_urls
    out_files,        \* output_dir: the files, each with its name and content
    save_done,        \* history: the URLs whose save_markdown call returned
    save_count,       \* article_count
    save_pc           \* "loop" in the run's loop, then "done"

runVars == <<mode, pc, rc, summary, errout, failedItems, slept, stop, last_fetch>>
followVars == <<site, current_url, article_count, saved, saves, tick>>
batchVars == <<url_file, urls, delay, i, successful, failed, attempted>>
crawlVars == <<start_page, end_page, page_num, all_urls, output_file, fetched_pages>>
convDirVars == <<dir_exists, md_files, dry_run, file_idx, total_conversions, processed_files,
                 written, unread>>

entryVars == <<runVars, followVars, batchVars, crawlVars, convDirVars>>
absVars == <<abs_base, abs_tree, abs_orig, abs_once, abs_runs>>
flatVars == <<reference_level, flat_children, flat_idx, current_section, markdown_parts, flat_src, flat_pc>>
convVars == <<mapping, code_sequence, conv_out, conv_pc>>
authVars == <<author_els, unique_authors, author_html, auth_pc>>
levelVars == <<heading_levels, level_pc>>
frontVars == <<fm_args, front_matter, front_pc>>
nameVars == <<name_url, base_name, name_pc>>
bodyVars == <<reference_prefix, body_children, body_idx, body_parts, body_src, body_from, content_md, body_pc>>
saveVars == <<save_urls, save_idx, out_files, save_done, save_count, save_pc>>
fnVars == <<authVars, levelVars, frontVars, nameVars, bodyVars, saveVars>>
otherThanAuth == <<levelVars, frontVars, nameVars, bodyVars, saveVars>>
otherThanLevel == <<authVars, frontVars, nameVars, bodyVars, saveVars>>
otherThanFront == <<authVars, levelVars, nameVars, bodyVars, saveVars>>
otherThanName == <<authVars, levelVars, frontVars, bodyVars, saveVars>>
otherThanBody == <<authVars, levelVars, frontVars, nameVars, saveVars>>
otherThanSave == <<authVars, levelVars, frontVars, nameVars, bodyVars>>
pureVars == <<absVars, flatVars, convVars, fnVars>>

vars == <<entryVars, pureVars>>

\* ------------------------------------------------- the site and its pages

Urls == 1..NumUrls

\* get_next_article_url returns None when the page has no next link.
NoUrl == 0

\* What fetch_html can do: raise for a connection failure or timeout
\* ("conn"), raise HTTPError with status 404 or another failure status
\* ("404", "500"), or return the page's text ("none").  The text either
\* holds one of the two not-found marker strings or not, and either holds
\* div.article_text or not.
FetchResults ==
    [err : {"conn", "404", "500"}, marker : {FALSE}, body : {FALSE}]
    \cup [err : {"none"}, marker : BOOLEAN, body : BOOLEAN]

Fetched(r) == r.err = "none"

\* download_all_articles tests the text for the not-found markers.
IsNotFoundPage(r) == Fetched(r) /\ r.marker

\* extract_fields raises ValueError when div.article_text is absent.
ExtractRaises(r) == Fetched(r) /\ ~r.body

\* The saturating successor used for article_count.
Bump(n) == Min2(n + 1, MaxCount)


\* Before the first fetch.
NoFetch == [err |-> "unset", marker |-> FALSE, body |-> FALSE]

\* ------------------------------------------- idle values of unused parts

IdleRun(m) ==
    /\ mode = m
    /\ pc = "loop"
    /\ rc = -1
    /\ summary = [none |-> 0]
    /\ errout = FALSE
    /\ failedItems = 0
    /\ slept = TRUE
    /\ stop = "running"
    /\ last_fetch = NoFetch

IdleFollow ==
    /\ site = [u \in Urls |-> NoUrl]
    /\ current_url = NoUrl
    /\ article_count = 0
    /\ saved = {}
    /\ saves = 0
    /\ tick = 0

IdleBatch ==
    /\ url_file = "ok"
    /\ urls = <<>>
    /\ delay = 0
    /\ i = 1
    /\ successful = 0
    /\ failed = 0
    /\ attempted = <<>>

\* The URL file before extract_all_article_urls has written it: a line
\* that is no URL.
NoFile == <<NoUrl>>

IdleCrawl ==
    /\ start_page = 1
    /\ end_page = 0
    /\ page_num = 1
    /\ all_urls = <<>>
    /\ output_file = NoFile
    /\ fetched_pages = <<>>

IdleConvDir ==
    /\ dir_exists = TRUE
    /\ md_files = <<>>
    /\ dry_run = FALSE
    /\ file_idx = 1
    /\ total_conversions = 0
    /\ processed_files = 0
    /\ written = {}
    /\ unread = {}

\* --------------------------------------- scrape_pravenc.py: entry points

\* A follower whose link lookup finds the page's own address.
GetNextArticleUrlSelf(u) == u

\* get_next_article_url: the absolute URL of the page's next link, or None.
GetNextArticleUrl(u) == site[u]

\* The single-article branch of main: fetch, extract, build, save; 0 when the
\* file was written, 1 when anything raised.  w: the file could be written.
ScrapeOneOk(r, w) == Fetched(r) /\ ~ExtractRaises(r) /\ w

ScrapeOneCode(r, w) == IF ScrapeOneOk(r, w) THEN 0 ELSE 1

InitSingle ==
    /\ IdleRun("single")
    /\ site \in [Urls -> Urls \cup {NoUrl}]
    /\ current_url \in Urls
    /\ article_count = 0
    /\ saved = {}
    /\ saves = 0
    /\ tick = 0
    /\ IdleBatch /\ IdleCrawl /\ IdleConvDir

SingleRun(r, w) ==
    /\ mode = "single" /\ pc = "loop"
    /\ last_fetch' = r
    /\ saved' = IF ScrapeOneOk(r, w) THEN saved \cup {current_url} ELSE saved
    /\ saves' = IF ScrapeOneOk(r, w) THEN Bump(saves) ELSE saves
    /\ rc' = ScrapeOneCode(r, w)
    /\ errout' = ~ScrapeOneOk(r, w)
    /\ failedItems' = IF ScrapeOneOk(r, w) THEN 0 ELSE 1
    /\ pc' = "done"
    /\ UNCHANGED <<mode, summary, slept, stop, site, current_url, article_count, tick>>
    /\ UNCHANGED <<batchVars, crawlVars, convDirVars>>
    /\ UNCHANGED pureVars

InitAll ==
    /\ IdleRun("all")
    /\ site \in [Urls -> Urls \cup {NoUrl}]
    /\ current_url \in Urls
    /\ article_count = 0
    /\ saved = {}
    /\ saves = 0
    /\ tick = 0
    /\ IdleBatch /\ IdleCrawl /\ IdleConvDir

\* download_all_articles always ends with the summary print and return 0.
FollowReturn == 0

\* A break out of the while loop, then the summary and the return.
FollowStop(r, how, toStderr, unitFailed) ==
    /\ last_fetch' = r
    /\ stop' = how
    /\ errout' = toStderr
    /\ failedItems' = IF unitFailed THEN failedItems + 1 ELSE failedItems
    /\ pc' = "done"
    /\ rc' = FollowReturn
    /\ summary' = [processed |-> article_count]
    /\ slept' = FALSE
    /\ tick' = 1 - tick
    /\ UNCHANGED <<mode, site, current_url, article_count, saved, saves>>
    /\ UNCHANGED <<batchVars, crawlVars, convDirVars>>
    /\ UNCHANGED pureVars

FollowGuard == mode = "all" /\ pc = "loop" /\ current_url # NoUrl

\* A follower that saves and counts the not-found page before it stops.
FollowNotFoundMarkerSaved(r) ==
    /\ FollowGuard
    /\ IsNotFoundPage(r)
    /\ last_fetch' = r
    /\ stop' = "marker"
    /\ saved' = saved \cup {current_url}
    /\ saves' = Bump(saves)
    /\ article_count' = Bump(article_count)
    /\ pc' = "done"
    /\ rc' = FollowReturn
    /\ summary' = [processed |-> Bump(article_count)]
    /\ slept' = FALSE
    /\ tick' = 1 - tick
    /\ UNCHANGED <<mode, errout, failedItems, site, current_url>>
    /\ UNCHANGED <<batchVars, crawlVars, convDirVars>>
    /\ UNCHANGED pureVars

\* The text holds "404 ошибка" or "Такого документа нет": break.
FollowNotFoundMarker(r) ==
    /\ FollowGuard
    /\ IsNotFoundPage(r)
    /\ FollowStop(r, "marker", FALSE, FALSE)

\* fetch_html raised HTTPError with status 404: break.
FollowHttp404(r) ==
    /\ FollowGuard
    /\ r.err = "404"
    /\ FollowStop(r, "http404", FALSE, FALSE)

\* fetch_html raised HTTPError with another status: stderr, break.
FollowHttpError(r) ==
    /\ FollowGuard
    /\ r.err = "500"
    /\ FollowStop(r, "httperr", TRUE, TRUE)

\* Any other exception: a connection failure, extract_fields' ValueError for
\* a missing div.article_text, or save_markdown failing: stderr, break.
FollowException(r, w) ==
    /\ FollowGuard
    /\ ~IsNotFoundPage(r)
    /\ \/ /\ r.err = "conn"
          /\ FollowStop(r, "exc_conn", TRUE, TRUE)
       \/ /\ ExtractRaises(r)
          /\ FollowStop(r, "exc_nobody", TRUE, TRUE)
       \/ /\ ScrapeOneOk(r, TRUE) /\ ~w
          /\ FollowStop(r, "exc_save", TRUE, TRUE)

\* A follower that goes to the next article at once.
FollowSavedNextNoSleep(r, w) ==
    /\ FollowGuard
    /\ ~IsNotFoundPage(r) /\ ScrapeOneOk(r, w)
    /\ GetNextArticleUrl(current_url) # NoUrl
    /\ saved' = saved \cup {current_url}
    /\ saves' = Bump(saves)
    /\ article_count' = Bump(article_count)
    /\ current_url' = GetNextArticleUrl(current_url)
    /\ slept' = FALSE
    /\ last_fetch' = r
    /\ tick' = 1 - tick
    /\ UNCHANGED <<mode, pc, rc, summary, errout, failedItems, site, stop>>
    /\ UNCHANGED <<batchVars, crawlVars, convDirVars>>
    /\ UNCHANGED pureVars

\* The article is saved and counted, its next link is followed, then the
\* half-second sleep.
FollowSavedNext(r, w) ==
    /\ FollowGuard
    /\ ~IsNotFoundPage(r) /\ ScrapeOneOk(r, w)
    /\ GetNextArticleUrl(current_url) # NoUrl
    /\ saved' = saved \cup {current_url}
    /\ saves' = Bump(saves)
    /\ article_count' = Bump(article_count)
    /\ current_url' = GetNextArticleUrl(current_url)
    /\ slept' = TRUE
    /\ last_fetch' = r
    /\ tick' = 1 - tick
    /\ UNCHANGED <<mode, pc, rc, summary, errout, failedItems, site, stop>>
    /\ UNCHANGED <<batchVars, crawlVars, convDirVars>>
    /\ UNCHANGED pureVars

\* A follower that saves the last article without counting it.
FollowSavedNoNextUncounted(r, w) ==
    /\ FollowGuard
    /\ ~IsNotFoundPage(r) /\ ScrapeOneOk(r, w)
    /\ GetNextArticleUrl(current_url) = NoUrl
    /\ saved' = saved \cup {current_url}
    /\ saves' = Bump(saves)
    /\ article_count' = article_count
    /\ stop' = "nonext"
    /\ pc' = "done"
    /\ rc' = FollowReturn
    /\ summary' = [processed |-> article_count]
    /\ slept' = FALSE
    /\ last_fetch' = r
    /\ tick' = 1 - tick
    /\ UNCHANGED <<mode, errout, failedItems, site, current_url>>
    /\ UNCHANGED <<batchVars, crawlVars, convDirVars>>
    /\ UNCHANGED pureVars

\* The article is saved and counted and has no next link: break.
FollowSavedNoNext(r, w) ==
    /\ FollowGuard
    /\ ~IsNotFoundPage(r) /\ ScrapeOneOk(r, w)
    /\ GetNextArticleUrl(current_url) = NoUrl
    /\ saved' = saved \cup {current_url}
    /\ saves' = Bump(saves)
    /\ article_count' = Bump(article_count)
    /\ stop' = "nonext"
    /\ pc' = "done"
    /\ rc' = FollowReturn
    /\ summary' = [processed |-> Bump(article_count)]
    /\ slept' = FALSE
    /\ last_fetch' = r
    /\ tick' = 1 - tick
    /\ UNCHANGED <<mode, errout, failedItems, site, current_url>>
    /\ UNCHANGED <<batchVars, crawlVars, convDirVars>>
    /\ UNCHANGED pureVars

NextFollow ==
    \E r \in FetchResults, w \in BOOLEAN :
        \/ SingleRun(r, w)
        \/ FollowNotFoundMarker(r)
        \/ FollowHttp404(r)
        \/ FollowHttpError(r)
        \/ FollowException(r, w)
        \/ FollowSavedNext(r, w)
        \/ FollowSavedNoNext(r, w)

\* ------------------------------------------------------- batch_scrape.py

\* --delay is parsed as any float; in tenths of a second (default 5).
Delays == {-10, 0, 5}

\* time.sleep raises ValueError for a negative length.
SleepRaises(d) == d < 0

\* The URL file: missing, unreadable, or read into its non-blank lines.
UrlFiles == {"missing", "unreadable", "ok"}

InitBatch ==
    /\ IdleRun("batch")
    /\ url_file \in UrlFiles
    /\ urls \in IF url_file = "ok" THEN SeqsUpTo(Urls, MaxBatch) ELSE {<<>>}
    /\ delay \in Delays
    /\ i = 1
    /\ successful = 0
    /\ failed = 0
    /\ attempted = <<>>
    /\ IdleFollow /\ IdleCrawl /\ IdleConvDir

\* The early returns: no such file, a read error, an empty URL list.
BatchNoInput ==
    /\ mode = "batch" /\ pc = "loop"
    /\ url_file # "ok" \/ urls = <<>>
    /\ pc' = "done"
    /\ rc' = 1
    /\ errout' = TRUE
    /\ UNCHANGED <<mode, summary, failedItems, slept, stop, last_fetch>>
    /\ UNCHANGED <<followVars, batchVars, crawlVars, convDirVars>>
    /\ UNCHANGED pureVars

BatchGuard ==
    /\ mode = "batch" /\ pc = "loop"
    /\ url_file = "ok"
    /\ i <= Len(urls)

\* The sleep after the counting, skipped after the last URL; an exception of
\* it is caught by the loop body's handler, which counts a failure.
BatchSleep(count) ==
    IF i < Len(urls)
    THEN IF SleepRaises(delay)
         THEN /\ failed' = count + 1
              /\ slept' = FALSE
              /\ errout' = TRUE
         ELSE /\ failed' = count
              /\ slept' = TRUE
              /\ UNCHANGED errout
    ELSE /\ failed' = count
         /\ slept' = FALSE
         /\ UNCHANGED errout

\* One pass of the loop body: the scraper runs as a subprocess on urls[i]
\* and its return code is counted.
BatchItem(r, w) ==
    /\ BatchGuard
    /\ attempted' = Append(attempted, urls[i])
    /\ IF ScrapeOneCode(r, w) = 0
       THEN /\ successful' = successful + 1
            /\ saved' = saved \cup {urls[i]}
            /\ saves' = Bump(saves)
            /\ UNCHANGED failedItems
            /\ BatchSleep(failed)
       ELSE /\ UNCHANGED <<successful, saved, saves>>
            /\ failedItems' = failedItems + 1
            /\ BatchSleep(failed + 1)
    /\ i' = i + 1
    /\ UNCHANGED <<mode, pc, rc, summary, stop, last_fetch, url_file, urls, delay>>
    /\ UNCHANGED <<site, current_url, article_count, tick, crawlVars, convDirVars>>
    /\ UNCHANGED pureVars

\* subprocess.run itself raises (the interpreter cannot be started): the
\* handler counts a failure; the sleep is not reached.
BatchItemRaises ==
    /\ BatchGuard
    /\ attempted' = Append(attempted, urls[i])
    /\ failed' = failed + 1
    /\ failedItems' = failedItems + 1
    /\ errout' = TRUE
    /\ slept' = FALSE
    /\ i' = i + 1
    /\ UNCHANGED <<mode, pc, rc, summary, stop, last_fetch, url_file, urls, delay, successful>>
    /\ UNCHANGED <<followVars, crawlVars, convDirVars>>
    /\ UNCHANGED pureVars

\* process_urls_from_file's result after the loop.
BatchCode(nfailed) == IF nfailed = 0 THEN 0 ELSE 1

\* After the loop: the summary and the return code.
BatchReturn ==
    /\ mode = "batch" /\ pc = "loop"
    /\ url_file = "ok" /\ urls # <<>>
    /\ i > Len(urls)
    /\ summary' = [successful |-> successful, failed |-> failed, total |-> Len(urls)]
    /\ rc' = BatchCode(failed)
    /\ pc' = "done"
    /\ UNCHANGED <<mode, errout, failedItems, slept, stop, last_fetch>>
    /\ UNCHANGED <<followVars, batchVars, crawlVars, convDirVars>>
    /\ UNCHANGED pureVars

NextBatch ==
    \/ BatchNoInput
    \/ \E r \in FetchResults, w \in BOOLEAN : BatchItem(r, w)
    \/ BatchItemRaises
    \/ BatchReturn

\* ------------------------------------------------------- extract_urls.py

\* What the fetch of a listing page can do: as fetch_html above, without the
\* article page's marks.
PageResults == {"conn", "404", "500", "none"}

\* extract_article_urls_from_page: the hrefs of span.article_title links,
\* in document order (a page can list an article twice).
PageUrlLists == {<<>>, <<1>>, <<2>>, <<1, 2>>, <<2, 2>>}

\* "Remove duplicates while preserving order": unique_urls with seen_urls.
RECURSIVE UniqueFrom(_, _, _)
UniqueFrom(list, seen, acc) ==
    IF list = <<>> THEN acc
    ELSE IF Head(list) \in seen
         THEN UniqueFrom(Tail(list), seen, acc)
         ELSE UniqueFrom(Tail(list), seen \cup {Head(list)}, Append(acc, Head(list)))

\* A deduplication that keeps the last occurrence of each URL.
RECURSIVE UniqueKeepLast(_)
UniqueKeepLast(list) ==
    IF list = <<>> THEN <<>>
    ELSE IF Head(list) \in Range(Tail(list)) THEN UniqueKeepLast(Tail(list))
    ELSE <<Head(list)>> \o UniqueKeepLast(Tail(list))

Unique(list) == UniqueFrom(list, {}, <<>>)

InitCrawl ==
    /\ IdleRun("crawl")
    /\ start_page \in 1..2
    /\ end_page \in 0..MaxPages
    /\ page_num = start_page
    /\ all_urls = <<>>
    /\ output_file = NoFile
    /\ fetched_pages = <<>>
    /\ IdleFollow /\ IdleBatch /\ IdleConvDir

\* An entry of the request history: the page asked for, what the fetch did,
\* the links extracted from it.
Request(n, r, links) == [page |-> n, res |-> r, links |-> links]

CrawlGuard == mode = "crawl" /\ pc = "loop" /\ page_num <= end_page

\* The deduplication, the write of the URL file and the return after the
\* loop.  w: the file could be written.
CrawlFinish(w) ==
    /\ pc' = "done"
    /\ IF w
       THEN /\ output_file' = Unique(all_urls)
            /\ summary' = [unique |-> Len(Unique(all_urls)),
                           total |-> Len(all_urls),
                           removed |-> Len(all_urls) - Len(Unique(all_urls))]
            /\ rc' = 0
            /\ UNCHANGED errout
       ELSE /\ rc' = 1
            /\ errout' = TRUE
            /\ UNCHANGED <<output_file, summary>>

\* The page is fetched, its links are collected, then the sleep.
CrawlPageOk(r, links) ==
    /\ CrawlGuard
    /\ r = "none"
    /\ fetched_pages' = Append(fetched_pages, Request(page_num, r, links))
    /\ all_urls' = all_urls \o links
    /\ slept' = TRUE
    /\ page_num' = page_num + 1
    /\ UNCHANGED <<mode, pc, rc, summary, errout, failedItems, stop, last_fetch>>
    /\ UNCHANGED <<start_page, end_page, output_file>>
    /\ UNCHANGED <<followVars, batchVars, convDirVars>>
    /\ UNCHANGED pureVars

\* A crawl that treats HTTP 404 like any other HTTP error: continue.
CrawlPage404Continue(r, w) ==
    /\ CrawlGuard
    /\ r = "404"
    /\ fetched_pages' = Append(fetched_pages, Request(page_num, r, <<>>))
    /\ stop' = "http404"
    /\ slept' = FALSE
    /\ page_num' = page_num + 1
    /\ UNCHANGED <<mode, pc, rc, summary, errout, failedItems, last_fetch>>
    /\ UNCHANGED <<start_page, end_page, all_urls, output_file>>
    /\ UNCHANGED <<followVars, batchVars, convDirVars>>
    /\ UNCHANGED pureVars

\* HTTP 404: break, then the end of the function.
CrawlPage404(r, w) ==
    /\ CrawlGuard
    /\ r = "404"
    /\ fetched_pages' = Append(fetched_pages, Request(page_num, r, <<>>))
    /\ stop' = "http404"
    /\ slept' = FALSE
    /\ CrawlFinish(w)
    /\ UNCHANGED <<mode, failedItems, last_fetch>>
    /\ UNCHANGED <<start_page, end_page, page_num, all_urls>>
    /\ UNCHANGED <<followVars, batchVars, convDirVars>>
    /\ UNCHANGED pureVars

\* Another HTTP error, or any other exception: stderr, continue with the
\* next page (the sleep is not reached).
CrawlPageError(r) ==
    /\ CrawlGuard
    /\ r \in {"500", "conn"}
    /\ fetched_pages' = Append(fetched_pages, Request(page_num, r, <<>>))
    /\ errout' = TRUE
    /\ failedItems' = failedItems + 1
    /\ slept' = FALSE
    /\ page_num' = page_num + 1
    /\ UNCHANGED <<mode, pc, rc, summary, stop, last_fetch>>
    /\ UNCHANGED <<start_page, end_page, all_urls, output_file>>
    /\ UNCHANGED <<followVars, batchVars, convDirVars>>
    /\ UNCHANGED pureVars

\* The range is exhausted: the end of the function.
CrawlEnd(w) ==
    /\ mode = "crawl" /\ pc = "loop" /\ page_num > end_page
    /\ stop' = "exhausted"
    /\ CrawlFinish(w)
    /\ UNCHANGED <<mode, failedItems, slept, last_fetch>>
    /\ UNCHANGED <<start_page, end_page, page_num, all_urls, fetched_pages>>
    /\ UNCHANGED <<followVars, batchVars, convDirVars>>
    /\ UNCHANGED pureVars

NextCrawl ==
    \/ \E r \in PageResults, links \in PageUrlLists : CrawlPageOk(r, links)
    \/ \E r \in PageResults, w \in BOOLEAN : CrawlPage404(r, w)
    \/ \E r \in PageResults : CrawlPageError(r)
    \/ \E w \in BOOLEAN : CrawlEnd(w)

\* ------------- convert_church_slavonic_to_unicode.py: the directory pass

\* A Markdown file, by the number of image references the pattern matches
\* in it.
FileRefs == 0..MaxRefs

\* The articles directory: missing, or its *.md files.
InitConvDir ==
    /\ IdleRun("convert")
    /\ dir_exists \in BOOLEAN
    /\ md_files \in IF dir_exists THEN SeqsUpTo(FileRefs, MaxFiles) ELSE {<<>>}
    /\ dry_run \in BOOLEAN
    /\ file_idx = 1
    /\ total_conversions = 0
    /\ processed_files = 0
    /\ written = {}
    /\ unread = {}
    /\ IdleFollow /\ IdleBatch /\ IdleCrawl

\* The articles directory does not exist: a message, return None.
ConvDirMissing ==
    /\ mode = "convert" /\ pc = "loop"
    /\ ~dir_exists
    /\ pc' = "done"
    /\ stop' = "nodir"
    /\ UNCHANGED <<mode, rc, summary, errout, failedItems, slept, last_fetch>>
    /\ UNCHANGED <<followVars, batchVars, crawlVars, convDirVars>>
    /\ UNCHANGED pureVars

ConvDirGuard ==
    /\ mode = "convert" /\ pc = "loop"
    /\ dir_exists
    /\ file_idx <= Len(md_files)

\* A pass that counts a file after its write, so that a failed write is not
\* counted.
ConvDirFileCountsAfterWrite(readable, writable) ==
    /\ ConvDirGuard
    /\ LET n == md_files[file_idx]
           writes == readable /\ n > 0 /\ ~dry_run
           counted == readable /\ n > 0 /\ (dry_run \/ writable)
       IN /\ total_conversions' = IF counted THEN total_conversions + n
                                  ELSE total_conversions
          /\ processed_files' = IF counted THEN processed_files + 1
                                 ELSE processed_files
          /\ written' = IF writes /\ writable THEN written \cup {file_idx}
                        ELSE written
          /\ unread' = IF readable THEN unread ELSE unread \cup {file_idx}
          /\ failedItems' = IF ~readable \/ (writes /\ ~writable)
                            THEN failedItems + 1 ELSE failedItems
    /\ file_idx' = file_idx + 1
    /\ UNCHANGED <<mode, pc, rc, summary, errout, slept, stop, last_fetch>>
    /\ UNCHANGED <<dir_exists, md_files, dry_run>>
    /\ UNCHANGED <<followVars, batchVars, crawlVars>>
    /\ UNCHANGED pureVars

\* One file: read, convert, count the matches, write back unless dry_run.
\* readable, writable: whether open() succeeds for reading, for writing.
\* The counters are updated before the write, so a failed write is counted.
ConvDirFile(readable, writable) ==
    /\ ConvDirGuard
    /\ LET n == md_files[file_idx]
           counted == readable /\ n > 0
           writes == counted /\ ~dry_run
       IN /\ total_conversions' = IF counted THEN total_conversions + n
                                  ELSE total_conversions
          /\ processed_files' = IF counted THEN processed_files + 1
                                 ELSE processed_files
          /\ written' = IF writes /\ writable THEN written \cup {file_idx}
                        ELSE written
          /\ unread' = IF readable THEN unread ELSE unread \cup {file_idx}
          /\ failedItems' = IF ~readable \/ (writes /\ ~writable)
                            THEN failedItems + 1 ELSE failedItems
    /\ file_idx' = file_idx + 1
    /\ UNCHANGED <<mode, pc, rc, summary, errout, slept, stop, last_fetch>>
    /\ UNCHANGED <<dir_exists, md_files, dry_run>>
    /\ UNCHANGED <<followVars, batchVars, crawlVars>>
    /\ UNCHANGED pureVars

\* After the loop: the conversion summary; total_conversions is returned.
ConvDirSummary ==
    /\ mode = "convert" /\ pc = "loop"
    /\ dir_exists
    /\ file_idx > Len(md_files)
    /\ summary' = [processed_files |-> processed_files,
                   total_conversions |-> total_conversions]
    /\ pc' = "done"
    /\ stop' = "exhausted"
    /\ UNCHANGED <<mode, rc, errout, failedItems, slept, last_fetch>>
    /\ UNCHANGED <<followVars, batchVars, crawlVars, convDirVars>>
    /\ UNCHANGED pureVars

NextConvDir ==
    \/ ConvDirMissing
    \/ \E readable \in BOOLEAN, writable \in BOOLEAN : ConvDirFile(readable, writable)
    \/ ConvDirSummary

\* ------------------------------------------------- the entry-point runs

\* The pure transforms are idle in a run of an entry point.
IdleAbs ==
    /\ abs_base = <<>>
    /\ abs_tree = <<>>
    /\ abs_orig = <<>>
    /\ abs_once = <<>>
    /\ abs_runs = 0

IdleFlat ==
    /\ reference_level = 1
    /\ flat_children = <<>>
    /\ flat_idx = 1
    /\ current_section = <<>>
    /\ markdown_parts = <<>>
    /\ flat_src = <<>>
    /\ flat_pc = "done"

IdleConv ==
    /\ mapping = <<>>
    /\ code_sequence = <<>>
    /\ conv_out = <<>>
    /\ conv_pc = "done"

IdleAuth ==
    /\ author_els = <<>>
    /\ unique_authors = <<>>
    /\ author_html = <<>>
    /\ auth_pc = "done"

IdleLevel ==
    /\ heading_levels = <<>>
    /\ level_pc = "done"

IdleFront ==
    /\ fm_args = <<>>
    /\ front_matter = <<>>
    /\ front_pc = "done"

IdleName ==
    /\ name_url = <<>>
    /\ base_name = <<>>
    /\ name_pc = "done"

IdleBody ==
    /\ reference_prefix = 1
    /\ body_children = <<>>
    /\ body_idx = 1
    /\ body_parts = <<>>
    /\ body_src = <<>>
    /\ body_from = <<>>
    /\ content_md = <<>>
    /\ body_pc = "done"

IdleSave ==
    /\ save_urls = <<>>
    /\ save_idx = 1
    /\ out_files = {}
    /\ save_done = <<>>
    /\ save_count = 0
    /\ save_pc = "done"

IdleFn == IdleAuth /\ IdleLevel /\ IdleFront /\ IdleName /\ IdleBody /\ IdleSave
IdleOtherThanAuth == IdleLevel /\ IdleFront /\ IdleName /\ IdleBody /\ IdleSave
IdleOtherThanLevel == IdleAuth /\ IdleFront /\ IdleName /\ IdleBody /\ IdleSave
IdleOtherThanFront == IdleAuth /\ IdleLevel /\ IdleName /\ IdleBody /\ IdleSave
IdleOtherThanName == IdleAuth /\ IdleLevel /\ IdleFront /\ IdleBody /\ IdleSave

IdleOtherThanBody == IdleAuth /\ IdleLevel /\ IdleFront /\ IdleName /\ IdleSave
IdleOtherThanSave == IdleAuth /\ IdleLevel /\ IdleFront /\ IdleName /\ IdleBody
IdlePure == IdleAbs /\ IdleFlat /\ IdleConv /\ IdleFn

Init ==
    /\ InitSingle \/ InitAll \/ InitBatch \/ InitCrawl \/ InitConvDir
    /\ IdlePure

Next == NextFollow \/ NextBatch \/ NextCrawl \/ NextConvDir

Spec == Init /\ [][Next]_vars

\* The scripts are sequential programs: a run that can take a step takes it.
FairSpec == Spec /\ WF_vars(Next)

\* ------------------------------------------------ claims on the entry points

Done == pc = "done"

\* C3: a batch run attempts every URL exactly once in file order, ends with
\* successful + failed = n, and returns 1 if failed > 0 and 0 otherwise.
\* Stated as claimed; a negative --delay makes time.sleep raise after the
\* URL was counted, and the handler counts the same URL as failed too.
C3_BatchCountsEveryUrlOnce ==
    (mode = "batch" /\ Done /\ url_file = "ok" /\ urls # <<>>) =>
        /\ attempted = urls
        /\ successful + failed = Len(urls)
        /\ summary = [successful |-> successful, failed |-> failed, total |-> Len(urls)]
        /\ rc = IF failed > 0 THEN 1 ELSE 0

\* C4: every entry point returns 0 only on full success and 1 if any unit
\* of work failed (single article, batch, pagination follower, listing
\* crawl).  Stated as claimed; the follower returns 0 after an error stop
\* and the crawl returns 0 after skipped pages.
C4_ExitCodeReportsFailure ==
    (Done /\ mode \in {"single", "batch", "all", "crawl"}) =>
        /\ rc \in {0, 1}
        /\ rc = 0 => failedItems = 0
        /\ failedItems > 0 => rc = 1

\* The pages a crawl asked for, in order.
RequestedPages == [k \in DOMAIN fetched_pages |-> fetched_pages[k].page]

\* The article URLs found on the pages fetched so far.
CollectedUrls == UNION {Range(fetched_pages[k].links) : k \in DOMAIN fetched_pages}

\* Pages start_page..n, each once, in order.
PagesUpTo(n) == [k \in 1..(n - start_page + 1) |-> start_page + k - 1]

NoDuplicates(list) ==
    \A a, b \in DOMAIN list : list[a] = list[b] => a = b

\* The request history holds an HTTP 404 at position k.
Got404(k) == k \in DOMAIN fetched_pages /\ fetched_pages[k].res = "404"

\* C5 as claimed: after HTTP 404 on page N no later page is fetched, the
\* URLs of pages start..N-1 are written and the function returns 0.
C5_Orig_404WritesAndReturnsZero ==
    (mode = "crawl" /\ Done) =>
        \A k \in DOMAIN fetched_pages : Got404(k) =>
            /\ RequestedPages = PagesUpTo(fetched_pages[k].page)
            /\ Range(output_file) = CollectedUrls
            /\ rc = 0

\* C5 as amended: an HTTP 404 on page N is the last request of the crawl
\* (pages start..N were asked for once each, none after N) and ends it at
\* once; either the URLs collected from the pages before N are written
\* without duplicates and the function returns 0, or the write of the
\* output file failed, nothing is written and it returns 1.
C5_Crawl404StopsCleanly ==
    mode = "crawl" =>
        \A k \in DOMAIN fetched_pages : Got404(k) =>
            /\ Done
            /\ RequestedPages = PagesUpTo(fetched_pages[k].page)
            /\ \/ /\ rc = 0
                  /\ Range(output_file) = CollectedUrls
                  /\ NoDuplicates(output_file)
               \/ /\ rc = 1
                  /\ output_file = NoFile
                  /\ errout

\* C5 witness: a 404 on the third page after two pages with links, written.
C5_Witness ==
    /\ mode = "crawl" /\ Done /\ rc = 0
    /\ Len(fetched_pages) = 3 /\ Got404(3)
    /\ fetched_pages[1].res = "none" /\ fetched_pages[2].res = "none"
    /\ Len(all_urls) > Len(output_file)

NotFound(r) == IsNotFoundPage(r) \/ r.err = "404"

NotFoundStops == {"marker", "http404"}

ErrorStops == {"httperr", "exc_conn", "exc_nobody", "exc_save"}

\* C6: in the pagination follower a not-found fetch (marker text or HTTP
\* 404) ends the run normally: nothing is saved or counted for that URL,
\* the run is over (no step follows a stop), the return code is 0 and
\* nothing went to stderr, while every error stop writes to stderr.
C6_NotFoundIsNormalEnd ==
    [][mode = "all" =>
        /\ (pc = "loop" /\ NotFound(last_fetch')) =>
              /\ pc' = "done" /\ stop' \in NotFoundStops
              /\ saved' = saved /\ article_count' = article_count
              /\ current_url' = current_url
              /\ rc' = 0 /\ ~errout'
        /\ pc = "done" => UNCHANGED vars
        /\ stop' \in ErrorStops => (errout' /\ ~NotFound(last_fetch'))
        /\ stop' \in NotFoundStops => NotFound(last_fetch')]_vars

\* C6 witness: a run stopped by the not-found marker after saving articles.
C6_Witness ==
    /\ mode = "all" /\ Done /\ stop = "marker"
    /\ article_count = 1 /\ current_url \notin saved /\ ~errout

\* Following the next links from u comes back to a page already visited.
RECURSIVE Revisits(_, _)
Revisits(u, seen) ==
    IF u = NoUrl THEN FALSE
    ELSE IF u \in seen THEN TRUE
    ELSE Revisits(site[u], seen \cup {u})

CycleFrom(u) == Revisits(u, {})

\* C7 as claimed: the follower always reaches a stopped state, also when the
\* next links form a cycle.
C7_Orig_AlwaysTerminates == (mode = "all") => <>Done

\* C7 as amended: the follower reaches a stopped state whenever the chain of
\* next links from the start URL does not come back to a page of the chain.
C7_TerminatesWithoutCycle ==
    (mode = "all" /\ ~CycleFrom(current_url)) => <>Done

\* C7 witness: a two-article chain followed to its end.
C7_Witness ==
    /\ mode = "all" /\ Done /\ stop = "nonext"
    /\ article_count = 2 /\ Cardinality(saved) = 2

\* C8: a missing body container is fatal only for its article: the articles
\* after it are still processed, in a follow run (the page's next link is
\* followed) and in a batch run.  Stated as claimed; the follower breaks.
C8_MissingBodyOnlyFailsItsArticle ==
    /\ (mode = "all" /\ stop = "exc_nobody") => GetNextArticleUrl(current_url) = NoUrl
    /\ (mode = "batch" /\ Done /\ url_file = "ok" /\ urls # <<>>) => attempted = urls

\* C9: a failed item never ends the surrounding loop (listing crawl other
\* than 404, batch driver, substitution pass) and the number of failed items
\* is in the final summary.  Stated as claimed; only the batch driver's
\* summary has a failure count.
C9_FailuresContinueAndAreReported ==
    /\ (mode = "crawl" /\ Done /\ stop = "exhausted") =>
          RequestedPages = PagesUpTo(end_page)
    /\ (mode = "batch" /\ Done /\ url_file = "ok" /\ urls # <<>>) => attempted = urls
    /\ (mode = "convert" /\ Done /\ dir_exists) => file_idx = Len(md_files) + 1
    /\ (Done /\ mode \in {"crawl", "batch", "convert"} /\ failedItems > 0) =>
          /\ "failed" \in DOMAIN summary
          /\ summary.failed = failedItems

\* ---------------------------------------- scrape_pravenc.py: absolutize_urls

\* URLs are sequences of characters; the scheme with its colon is one
\* character, "https:", and "h" stands for the host name.
MaxPath == 3        \* characters of an href or src after its scheme and host

StartsWith(s, p) == Len(s) >= Len(p) /\ SubSeq(s, 1, Len(p)) = p

SchemeHost == <<"https:", "/", "/", "h">>

PathChars == {"/", "a", " "}

\* The href and src values of a page: a path or relative reference, or an
\* absolute URL of the site (its path empty or starting with "/").
Refs ==
    SeqsUpTo(PathChars, MaxPath)
    \cup {SchemeHost \o q : q \in {x \in SeqsUpTo(PathChars, MaxPath - 1) :
                                      x = <<>> \/ x[1] = "/"}}

BaseUrls == {SchemeHost \o <<"/", "t", "/", "p">>, SchemeHost \o <<"/", "t", "/">>}

\* urlsplit strips leading spaces.
RECURSIVE LStrip(_)
LStrip(u) == IF u # <<>> /\ Head(u) = " " THEN LStrip(Tail(u)) ELSE u

\* str.split("/"): the segments between the slashes.
RECURSIVE SplitSlash(_, _)
SplitSlash(u, seg) ==
    IF u = <<>> THEN <<seg>>
    ELSE IF Head(u) = "/" THEN <<seg>> \o SplitSlash(Tail(u), <<>>)
    ELSE SplitSlash(Tail(u), Append(seg, Head(u)))

\* "/".join(segments)
RECURSIVE JoinSlash(_)
JoinSlash(segs) ==
    IF segs = <<>> THEN <<>>
    ELSE IF Len(segs) = 1 THEN segs[1]
    ELSE segs[1] \o <<"/">> \o JoinSlash(Tail(segs))

\* filter(None, segments): the non-empty segments.
RECURSIVE NonEmpty(_)
NonEmpty(segs) ==
    IF segs = <<>> THEN <<>>
    ELSE IF Head(segs) = <<>> THEN NonEmpty(Tail(segs))
    ELSE <<Head(segs)>> \o NonEmpty(Tail(segs))

\* The first "/" of u, or Len(u) + 1.
RECURSIVE SlashAt(_, _)
SlashAt(u, k) ==
    IF k > Len(u) THEN k
    ELSE IF u[k] = "/" THEN k
    ELSE SlashAt(u, k + 1)

\* urlsplit: a scheme only at the very start; a netloc only after "//",
\* up to the next "/"; the rest is the path.
UrlSplit(u) ==
    LET v == LStrip(u)
        hasScheme == v # <<>> /\ Head(v) = "https:"
        rest == IF hasScheme THEN Tail(v) ELSE v
        hasNetloc == StartsWith(rest, <<"/", "/">>)
        cut == SlashAt(rest, 3)
    IN [scheme |-> hasScheme,
        netloc |-> IF hasNetloc THEN SubSeq(rest, 3, cut - 1) ELSE <<>>,
        path |-> IF hasNetloc THEN SubSeq(rest, cut, Len(rest)) ELSE rest]

\* urlunsplit for the site's scheme and a netloc.
UrlUnsplit(netloc, path) ==
    <<"https:", "/", "/">> \o netloc
        \o (IF path # <<>> /\ Head(path) # "/" THEN <<"/">> \o path ELSE path)

\* segments[1:-1] = filter(None, segments[1:-1])
FilterMiddle(segs) ==
    IF Len(segs) < 2 THEN segs
    ELSE <<segs[1]>> \o NonEmpty(SubSeq(segs, 2, Len(segs) - 1)) \o <<segs[Len(segs)]>>

\* urllib.parse.urljoin for URLs of the site's scheme, without query,
\* fragment or dot segments.
UrlJoin(base, url) ==
    IF url = <<>> THEN base
    ELSE LET b == UrlSplit(base)
             p == UrlSplit(url)
             baseParts == LET parts == SplitSlash(b.path, <<>>)
                          IN IF parts[Len(parts)] # <<>>
                             THEN SubSeq(parts, 1, Len(parts) - 1)
                             ELSE parts
             segments == IF StartsWith(p.path, <<"/">>)
                         THEN SplitSlash(p.path, <<>>)
                         ELSE FilterMiddle(baseParts \o SplitSlash(p.path, <<>>))
             joined == JoinSlash(segments)
         IN IF p.netloc # <<>> THEN UrlUnsplit(p.netloc, p.path)
            ELSE IF p.path = <<>> THEN UrlUnsplit(b.netloc, b.path)
            ELSE UrlUnsplit(b.netloc, IF joined = <<>> THEN <<"/">> ELSE joined)

\* A tag without the attribute the absolutizer reads (href of a link, src
\* of the other tags).
NoAttr == <<"-">>

\* "Wrap URLs with spaces in angle brackets for proper Markdown".
Wrap(url) == IF " " \in Range(url) THEN <<"<">> \o url \o <<">">> ELSE url

\* tag[attr] = the wrapped urljoin(base_url, tag.get(attr)), if the tag has
\* the attribute.
Absolutized(v, base) == IF v = NoAttr THEN NoAttr ELSE Wrap(UrlJoin(base, v))

MediaNames == {"audio", "video"}

\* A link or media tag of the subtree: its name, its href or src, and the
\* link and media tags nested in it.
LeafTags == [name : {"a", "img", "source"}, attr : Refs \cup {NoAttr}, kids : {<<>>}]

ParentTags ==
    [name : MediaNames \cup {"a"},
     attr : {NoAttr, <<"a", " ", "a">>},
     kids : {<<k>> : k \in LeafTags}]

\* The branch of the loop body for one tag of find_all's list, its nested
\* <source> tags included when it is an audio or video tag.
AbsolutizeTag(t, base) ==
    IF t.name \in MediaNames
    THEN [t EXCEPT !.attr = Absolutized(t.attr, base),
                   !.kids = [k \in DOMAIN t.kids |->
                                IF t.kids[k].name = "source"
                                THEN [t.kids[k] EXCEPT !.attr = Absolutized(t.kids[k].attr, base)]
                                ELSE t.kids[k]]]
    ELSE [t EXCEPT !.attr = Absolutized(t.attr, base)]

\* find_all lists a tag before the tags nested in it, so the loop handles
\* the tag, then each nested tag as a tag of its own.
AbsolutizeElement(e, base) ==
    LET own == AbsolutizeTag(e, base)
    IN [own EXCEPT !.kids = [k \in DOMAIN own.kids |-> AbsolutizeTag(own.kids[k], base)]]

\* absolutize_urls(element, base_url)
AbsolutizeUrls(tree, base) == [k \in DOMAIN tree |-> AbsolutizeElement(tree[k], base)]

MaxRuns == 2        \* runs of absolutize_urls on one tree

IdleEntry(m) ==
    /\ IdleRun(m) /\ IdleFollow /\ IdleBatch /\ IdleCrawl /\ IdleConvDir

InitAbs ==
    /\ IdleEntry("absolutize")
    /\ abs_base \in BaseUrls
    /\ abs_tree \in {<<e>> : e \in LeafTags \cup ParentTags}
    /\ abs_orig = abs_tree
    /\ abs_once = <<>>
    /\ abs_runs = 0
    /\ IdleFlat /\ IdleConv /\ IdleFn

\* One call of absolutize_urls on the tree: by extract_fields on the whole
\* body, then by the flattener on a reference block of it.
Absolutize ==
    /\ mode = "absolutize"
    /\ abs_runs < MaxRuns
    /\ abs_tree' = AbsolutizeUrls(abs_tree, abs_base)
    /\ abs_once' = IF abs_runs = 0 THEN AbsolutizeUrls(abs_tree, abs_base) ELSE abs_once
    /\ abs_runs' = abs_runs + 1
    /\ UNCHANGED <<abs_base, abs_orig, entryVars, flatVars, convVars, fnVars>>

NextAbs == Absolutize

SpecAbs == InitAbs /\ [][NextAbs]_vars

\* C2: running absolutize_urls twice gives the same href and src values as
\* running it once.  Stated as claimed; a URL with a space is wrapped in
\* angle brackets by the first run, is no absolute URL any more for the
\* second, and is resolved against the base and wrapped again.
C2_AbsolutizeTwiceIsOnce == abs_runs >= 2 => abs_tree = abs_once

\* ------------------------------ scrape_pravenc.py: process_nested_content

\* Text is a sequence of characters.  The three Cyrillic letters of an
\* abbreviation are one character, written "Soch", "Ist", "Lit", so that a
\* prefix is the abbreviation, ".", ":"; "T" is any other visible character
\* and the titles are written in Latin letters.
MaxChildren == 2    \* children of the main content div

Abbrevs == {"Soch", "Ist", "Lit"}

Prefix(p) == <<p, ".", ":">>

HeadingText(p) ==
    CASE p = "Soch" -> "Sochineniya"
      [] p = "Ist" -> "Istochniki"
      [] OTHER -> "Literatura"

Whitespace == {" ", "\n"}

RECURSIVE LTrim(_)
LTrim(s) == IF s # <<>> /\ Head(s) \in Whitespace THEN LTrim(Tail(s)) ELSE s

RECURSIVE RTrim(_)
RTrim(s) ==
    IF s # <<>> /\ s[Len(s)] \in Whitespace THEN RTrim(SubSeq(s, 1, Len(s) - 1)) ELSE s

\* str.strip()
Trim(s) == RTrim(LTrim(s))

Contains(sub, s) ==
    \E k \in 1..(Len(s) - Len(sub) + 1) : SubSeq(s, k, k + Len(sub) - 1) = sub

\* The text nodes of a block: bare, or inside an inline tag.
TextNode(t) == [tag |-> "text", text |-> t]
SpanNode(t) == [tag |-> "span", text |-> t]

\* Reference blocks with the prefix p: in one text node, and split over an
\* inline tag and the text after it.
RefBlocksOf(p) ==
    { <<TextNode(Prefix(p) \o <<" ", "T">>)>>,
      <<SpanNode(<<p, ".">>), TextNode(<<":", " ", "T">>)>> }

NoPrefixBlock == <<TextNode(<<"T">>)>>

RefBlocks ==
    UNION {RefBlocksOf(p) : p \in Abbrevs}
    \cup { <<TextNode(<<" ">> \o Prefix("Soch") \o <<"T">>)>>,
           <<SpanNode(Prefix("Soch")), TextNode(<<" ", "T">>)>>,
           <<TextNode(Prefix("Ist") \o <<"T">>), SpanNode(Prefix("Ist") \o <<"T">>)>>,
           <<TextNode(Prefix("Lit") \o <<"T", " ">> \o Prefix("Lit"))>>,
           <<SpanNode(<<" ">>), TextNode(Prefix("Soch") \o <<"T">>)>>,
           <<TextNode(<<"T", " ">> \o Prefix("Soch"))>>,
           <<TextNode(Prefix("Lit"))>>,
           <<TextNode(<<"Ist", ".", " ", "T">>)>>,
           NoPrefixBlock }

\* The children of a container: a div.reference, another element (with its
\* own text, or with children of its own), or a bare string.
ReferenceDiv(b) == [kind |-> "reference", nodes |-> b, kids |-> <<>>]
Para == [kind |-> "element", nodes |-> <<TextNode(<<"T">>)>>, kids |-> <<>>]
Str(t) == [kind |-> "string", nodes |-> <<TextNode(t)>>, kids |-> <<>>]
Wrapper(kids) == [kind |-> "element", nodes |-> <<>>, kids |-> kids]

Wrappers ==
    UNION {{Wrapper(<<ReferenceDiv(b)>>), Wrapper(<<Para, ReferenceDiv(b)>>)} :
              b \in RefBlocksOf("Soch") \cup {NoPrefixBlock, <<TextNode(Prefix("Lit"))>>}}

\* A reference block that stands two containers below the content div.
DeepBlock == <<TextNode(Prefix("Soch") \o <<"T", "T">>)>>

DeepWrappers ==
    { Wrapper(<<Wrapper(<<ReferenceDiv(DeepBlock)>>)>>),
      Wrapper(<<Para, Wrapper(<<Para, ReferenceDiv(DeepBlock)>>)>>) }

ContentChildren ==
    {ReferenceDiv(b) : b \in RefBlocks} \cup Wrappers \cup DeepWrappers
    \cup {Para, Str(<<" ">>), Str(<<"T">>)}

\* element.find_all('div', class_='reference') is not empty: find_all looks
\* at every descendant.
RECURSIVE ContainsRefs(_)
ContainsRefs(c) ==
    \E k \in DOMAIN c.kids : c.kids[k].kind = "reference" \/ ContainsRefs(c.kids[k])

\* markdownify on text: runs of whitespace become one space.
RECURSIVE CollapseWs(_)
CollapseWs(s) ==
    IF Len(s) < 2 THEN s
    ELSE IF s[1] \in Whitespace /\ s[2] \in Whitespace THEN CollapseWs(<<" ">> \o Tail(Tail(s)))
    ELSE <<s[1]>> \o CollapseWs(Tail(s))

\* markdownify on the text nodes of an element: a tag outside the convert
\* list leaves its text.
RECURSIVE MdInline(_)
MdInline(nodes) ==
    IF nodes = <<>> THEN <<>> ELSE CollapseWs(Head(nodes).text) \o MdInline(Tail(nodes))

\* md(...) of the serialised children: a paragraph stands on lines of its own.
RECURSIVE MdAll(_)
MdAll(cs) ==
    IF cs = <<>> THEN <<>>
    ELSE LET c == Head(cs)
             inner == MdInline(c.nodes) \o MdAll(c.kids)
         IN (IF c.kind = "element" THEN <<"\n">> \o inner \o <<"\n">> ELSE inner)
            \o MdAll(Tail(cs))

\* element.get_text(strip=True): every string stripped, the empty ones left out.
RECURSIVE GetText(_)
GetText(nodes) ==
    IF nodes = <<>> THEN <<>> ELSE Trim(Head(nodes).text) \o GetText(Tail(nodes))

MatchedAbbrevAnywhere(ref_text) ==
    IF Contains(Prefix("Soch"), ref_text) THEN "Soch"
    ELSE IF Contains(Prefix("Ist"), ref_text) THEN "Ist"
    ELSE IF Contains(Prefix("Lit"), ref_text) THEN "Lit"
    ELSE "none"

\* The branch of the startswith chain that ref_text takes.
MatchedAbbrev(ref_text) ==
    IF StartsWith(ref_text, Prefix("Soch")) THEN "Soch"
    ELSE IF StartsWith(ref_text, Prefix("Ist")) THEN "Ist"
    ELSE IF StartsWith(ref_text, Prefix("Lit")) THEN "Lit"
    ELSE "none"

\* The loop over element_copy.find_all(string=True): a text node whose
\* stripped text starts with the prefix is replaced by the stripped text
\* without its first characters.
RemoveAbbrev(nodes, p) ==
    [k \in DOMAIN nodes |->
        IF StartsWith(Trim(nodes[k].text), Prefix(p))
        THEN [nodes[k] EXCEPT !.text =
                 SubSeq(Trim(nodes[k].text), Len(Prefix(p)) + 1, Len(Trim(nodes[k].text)))]
        ELSE nodes[k]]

\* A fragment of markdown_parts: the number of "#" of its heading line (0:
\* no heading line), the heading's title and the Markdown under it.
Fragment(m, t, b) == [marker |-> m, title |-> t, body |-> b]

\* A reference fragment whose heading is left out where nothing stands under it.
ReferenceFragmentUnlessEmpty(c, level) ==
    LET ref_text == GetText(c.nodes)
        p == MatchedAbbrev(ref_text)
        element_copy == IF p = "none" THEN c.nodes ELSE RemoveAbbrev(c.nodes, p)
        ref_md == Trim(MdInline(element_copy))
    IN IF ref_md = <<>> THEN Fragment(0, "", ref_md)
       ELSE Fragment(level, HeadingText(p), ref_md)

\* f"{reference_prefix} {heading_text}\n\n{ref_md}" for a div.reference
ReferenceFragment(c, level) ==
    LET ref_text == GetText(c.nodes)
        p == MatchedAbbrev(ref_text)
        element_copy == IF p = "none" THEN c.nodes ELSE RemoveAbbrev(c.nodes, p)
        ref_md == Trim(MdInline(element_copy))
    IN Fragment(level, HeadingText(p), ref_md)

\* What a step appends: the fragment and, as history, what it was made of.
Emitted(f, c) == [frag |-> f, src |-> c]

\* "if current_section: ... if section_md: markdown_parts.append(section_md)"
FlushSection(section) ==
    LET section_md == Trim(MdAll(section))
    IN IF section = <<>> \/ section_md = <<>> THEN <<>>
       ELSE <<Emitted(Fragment(0, "", section_md),
                      [kind |-> "section", nodes |-> <<>>, kids |-> section])>>

\* A loop over element.children that goes down into a child with reference
\* blocks of its own.
RECURSIVE ProcessElementDeep(_, _, _, _)
ProcessElementDeep(kids, k, section, level) ==
    IF k > Len(kids) THEN FlushSection(section)
    ELSE IF kids[k].kind = "reference"
    THEN FlushSection(section)
         \o <<Emitted(ReferenceFragment(kids[k], level), kids[k])>>
         \o ProcessElementDeep(kids, k + 1, <<>>, level)
    ELSE IF kids[k].kind = "element" /\ ContainsRefs(kids[k])
    THEN FlushSection(section)
         \o ProcessElementDeep(kids[k].kids, 1, <<>>, level)
         \o ProcessElementDeep(kids, k + 1, <<>>, level)
    ELSE IF kids[k].kind = "element" \/ Trim(MdInline(kids[k].nodes)) # <<>>
    THEN ProcessElementDeep(kids, k + 1, Append(section, kids[k]), level)
    ELSE ProcessElementDeep(kids, k + 1, section, level)

\* process_element_with_references: the loop over element.children from
\* child k on, with the section collected so far.
RECURSIVE ProcessElementWithReferences(_, _, _, _)
ProcessElementWithReferences(kids, k, section, level) ==
    IF k > Len(kids) THEN FlushSection(section)
    ELSE IF kids[k].kind = "reference"
    THEN FlushSection(section)
         \o <<Emitted(ReferenceFragment(kids[k], level), kids[k])>>
         \o ProcessElementWithReferences(kids, k + 1, <<>>, level)
    ELSE IF kids[k].kind = "element" \/ Trim(MdInline(kids[k].nodes)) # <<>>
    THEN ProcessElementWithReferences(kids, k + 1, Append(section, kids[k]), level)
    ELSE ProcessElementWithReferences(kids, k + 1, section, level)

ReferenceLevels == {1, 6}

\* The children of a parsed container: no two strings in a row.
ParsedChildren(cs) ==
    \A k \in 1..(Len(cs) - 1) : ~(cs[k].kind = "string" /\ cs[k + 1].kind = "string")

InitFlat ==
    /\ IdleEntry("flatten")
    /\ IdleAbs /\ IdleConv /\ IdleFn
    /\ reference_level \in ReferenceLevels
    /\ flat_children \in {cs \in SeqsUpTo(ContentChildren, MaxChildren) : ParsedChildren(cs)}
    /\ flat_idx = 1
    /\ current_section = <<>>
    /\ markdown_parts = <<>>
    /\ flat_src = <<>>
    /\ flat_pc = "loop"

FlatGuard ==
    /\ mode = "flatten"
    /\ flat_pc = "loop"
    /\ flat_idx <= Len(flat_children)

\* One iteration of the loop appends these to markdown_parts.
FlatEmit(em) ==
    /\ markdown_parts' = markdown_parts \o [k \in DOMAIN em |-> em[k].frag]
    /\ flat_src' = flat_src \o [k \in DOMAIN em |-> em[k].src]

\* The child is a div.reference: the section so far, then its fragment.
FlatReference ==
    /\ FlatGuard
    /\ flat_children[flat_idx].kind = "reference"
    /\ FlatEmit(FlushSection(current_section)
                \o <<Emitted(ReferenceFragment(flat_children[flat_idx], reference_level),
                             flat_children[flat_idx])>>)
    /\ current_section' = <<>>
    /\ flat_idx' = flat_idx + 1
    /\ UNCHANGED <<reference_level, flat_children, flat_pc, entryVars, absVars, convVars, fnVars>>

\* The child is an element with reference divs in it.
FlatElementWithRefs ==
    /\ FlatGuard
    /\ flat_children[flat_idx].kind = "element"
    /\ ContainsRefs(flat_children[flat_idx])
    /\ FlatEmit(FlushSection(current_section)
                \o ProcessElementWithReferences(flat_children[flat_idx].kids, 1, <<>>,
                                                reference_level))
    /\ current_section' = <<>>
    /\ flat_idx' = flat_idx + 1
    /\ UNCHANGED <<reference_level, flat_children, flat_pc, entryVars, absVars, convVars, fnVars>>

\* The child is any other element.
FlatRegular ==
    /\ FlatGuard
    /\ flat_children[flat_idx].kind = "element"
    /\ ~ContainsRefs(flat_children[flat_idx])
    /\ current_section' = Append(current_section, flat_children[flat_idx])
    /\ flat_idx' = flat_idx + 1
    /\ UNCHANGED <<reference_level, flat_children, markdown_parts, flat_src, flat_pc,
                   entryVars, absVars, convVars, fnVars>>

\* The child is a string: kept unless it is all whitespace.
FlatString ==
    /\ FlatGuard
    /\ flat_children[flat_idx].kind = "string"
    /\ current_section' =
          IF Trim(flat_children[flat_idx].nodes[1].text) # <<>>
          THEN Append(current_section, flat_children[flat_idx])
          ELSE current_section
    /\ flat_idx' = flat_idx + 1
    /\ UNCHANGED <<reference_level, flat_children, markdown_parts, flat_src, flat_pc,
                   entryVars, absVars, convVars, fnVars>>

\* After the loop: "Add any remaining content".
FlatEnd ==
    /\ mode = "flatten"
    /\ flat_pc = "loop"
    /\ flat_idx > Len(flat_children)
    /\ FlatEmit(FlushSection(current_section))
    /\ flat_pc' = "done"
    /\ UNCHANGED <<reference_level, flat_children, flat_idx, current_section,
                   entryVars, absVars, convVars, fnVars>>

NextFlat == FlatReference \/ FlatElementWithRefs \/ FlatRegular \/ FlatString \/ FlatEnd

SpecFlat == InitFlat /\ [][NextFlat]_vars

\* C1: a reference block whose trimmed visible text starts with one of the
\* three prefixes is emitted under that prefix's title, and the prefix is no
\* substring of the fragment's body, however the prefix is split over the
\* block's text nodes.  Stated as claimed; a prefix that begins in an inline
\* tag and ends in the text after it selects the title and is not removed.
C1_PrefixGivesTitleAndIsStripped ==
    \A k \in DOMAIN markdown_parts :
        flat_src[k].kind = "reference" =>
            \A p \in Abbrevs :
                StartsWith(GetText(flat_src[k].nodes), Prefix(p)) =>
                    /\ markdown_parts[k].title = HeadingText(p)
                    /\ ~Contains(Prefix(p), markdown_parts[k].body)

\* ----- convert_church_slavonic_to_unicode.py: convert_church_slavonic_images

\* The code sequence of a matched image reference is a sequence of
\* characters; "/image.png" is one character, "0", "1", "2" and "a" are the
\* hex digits and "Z" is a letter that is none.  "U+2DE3" and "U+0487" are
\* the two combining Cyrillic characters of those code points.
MaxPieces == 3      \* pieces a code sequence is put together from

HexDigits == {"0", "1", "2", "a"}

SequencePieces ==
    { <<"x", "0", "0">>, <<"x", "0", "a">>, <<"x", "a", "a", "0">>,
      <<"x", "0", "1", "0">>, <<"x", "0", "a", "2">>, <<"x", "Z", "Z", "Z">>,
      <<" ">>, <<"/image.png">>, <<"0">>, <<"Z">>, <<"x">> }

RECURSIVE Flatten(_)
Flatten(ps) == IF ps = <<>> THEN <<>> ELSE Head(ps) \o Flatten(Tail(ps))

\* What ([^>]+) can capture: at least one character.
CodeSequences == {Flatten(ps) : ps \in SeqsUpTo(SequencePieces, MaxPieces) \ {<<>>}}

\* The contents of cu.json.
Mappings ==
    { (<<"x", "0", "0">> :> <<"A">>) @@ (<<"x", "0", "a">> :> <<"B", "C">>)
         @@ (<<"x", "0", "0", "0">> :> <<"D">>),
      (<<"x", "0", "0">> :> <<"A">>),
      (<<"x", "0", "1", "0">> :> <<"U+2DE3">>) @@ (<<"x", "0", "a", "2">> :> <<"U+0487">>) }

\* code_sequence.replace('/image.png', '')
RemoveImagePng(s) == SelectSeq(s, LAMBDA c : c # "/image.png")

\* The length of the match of x[0-9a-fA-F]{2,3} at position k, 0 for none.
TokenLenAt(s, k) ==
    IF k + 2 <= Len(s) /\ s[k] = "x" /\ s[k + 1] \in HexDigits /\ s[k + 2] \in HexDigits
    THEN IF k + 3 <= Len(s) /\ s[k + 3] \in HexDigits THEN 4 ELSE 3
    ELSE 0

RECURSIVE FindAllAnyLetters(_, _)
FindAllAnyLetters(s, k) ==
    LET Letters == HexDigits \cup {"Z"}
        n == IF k + 2 <= Len(s) /\ s[k] = "x" /\ s[k + 1] \in Letters /\ s[k + 2] \in Letters
             THEN IF k + 3 <= Len(s) /\ s[k + 3] \in Letters THEN 4 ELSE 3
             ELSE 0
    IN IF k > Len(s) THEN <<>>
       ELSE IF n = 0 THEN FindAllAnyLetters(s, k + 1)
       ELSE <<SubSeq(s, k, k + n - 1)>> \o FindAllAnyLetters(s, k + n)

\* re.findall(r'x[0-9a-fA-F]{2,3}', code_sequence), from position k on
RECURSIVE FindAll(_, _)
FindAll(s, k) ==
    IF k > Len(s) THEN <<>>
    ELSE IF TokenLenAt(s, k) = 0 THEN FindAll(s, k + 1)
    ELSE <<SubSeq(s, k, k + TokenLenAt(s, k) - 1)>> \o FindAll(s, k + TokenLenAt(s, k))

\* str.find: the lowest index (from 0) where chunk stands, -1 for none.
Find(s, chunk) ==
    LET hits == {k \in 0..(Len(s) - Len(chunk)) : SubSeq(s, k + 1, k + Len(chunk)) = chunk}
    IN IF hits = {} THEN -1 ELSE CHOOSE k \in hits : \A h \in hits : k <= h

ChunkTextMappedOnly(chunk, m) == IF chunk \in DOMAIN m THEN m[chunk] ELSE <<>>

\* "if chunk in mapping: result_text += mapping[chunk]; else: f'[{chunk}]'"
ChunkText(chunk, m) ==
    IF chunk \in DOMAIN m THEN m[chunk] ELSE <<"[">> \o chunk \o <<"]">>

RECURSIVE ReconstructTokensOnly(_, _, _, _)
ReconstructTokensOnly(hex_chunks, remaining_sequence, result_text, m) ==
    IF hex_chunks = <<>> THEN result_text
    ELSE ReconstructTokensOnly(Tail(hex_chunks), remaining_sequence,
                               result_text \o ChunkText(Head(hex_chunks), m), m)

\* The loop over hex_chunks with remaining_sequence and result_text, and
\* "Add any remaining text" after it.
RECURSIVE Reconstruct(_, _, _, _)
Reconstruct(hex_chunks, remaining_sequence, result_text, m) ==
    IF hex_chunks = <<>> THEN result_text \o remaining_sequence
    ELSE LET chunk == Head(hex_chunks)
             chunk_pos == Find(remaining_sequence, chunk)
             prefix == IF chunk_pos > 0 THEN SubSeq(remaining_sequence, 1, chunk_pos) ELSE <<>>
         IN Reconstruct(Tail(hex_chunks),
                        SubSeq(remaining_sequence, chunk_pos + Len(chunk) + 1,
                               Len(remaining_sequence)),
                        result_text \o prefix \o ChunkText(chunk, m),
                        m)

SpanOpen == <<"<span class=\"cu\">">>
SpanClose == <<"</span>">>

\* replace_image(match), for match.group(2) = seq
ReplaceImage(seq, m) ==
    LET cleaned == Trim(RemoveImagePng(seq))
    IN IF cleaned = <<>> THEN <<>>
       ELSE SpanOpen \o Reconstruct(FindAll(cleaned, 1), cleaned, <<>>, m) \o SpanClose

InitConv ==
    /\ IdleEntry("substitute")
    /\ IdleAbs /\ IdleFlat /\ IdleFn
    /\ mapping \in Mappings
    /\ code_sequence \in CodeSequences
    /\ conv_out = <<>>
    /\ conv_pc = "match"

ConvGuard == mode = "substitute" /\ conv_pc = "match"

\* "Skip empty sequences": nothing is left of the sequence once
\* "/image.png" is removed and it is stripped.
ConvSkipEmpty ==
    /\ ConvGuard
    /\ Trim(RemoveImagePng(code_sequence)) = <<>>
    /\ conv_out' = ReplaceImage(code_sequence, mapping)
    /\ conv_pc' = "done"
    /\ UNCHANGED <<mapping, code_sequence, entryVars, absVars, flatVars, fnVars>>

\* The reference is replaced by the span with the substituted text.
ConvReplace ==
    /\ ConvGuard
    /\ Trim(RemoveImagePng(code_sequence)) # <<>>
    /\ conv_out' = ReplaceImage(code_sequence, mapping)
    /\ conv_pc' = "done"
    /\ UNCHANGED <<mapping, code_sequence, entryVars, absVars, flatVars, fnVars>>

NextConv == ConvSkipEmpty \/ ConvReplace

SpecConv == InitConv /\ [][NextConv]_vars

\* The text a sequence stands for when it is read from left to right: a
\* token gives its mapped string or its bracketed literal, any other
\* character gives itself.
RECURSIVE Substituted(_, _, _)
Substituted(s, k, m) ==
    IF k > Len(s) THEN <<>>
    ELSE IF TokenLenAt(s, k) = 0 THEN <<s[k]>> \o Substituted(s, k + 1, m)
    ELSE LET token == SubSeq(s, k, k + TokenLenAt(s, k) - 1)
         IN (IF token \in DOMAIN m THEN m[token] ELSE <<"[">> \o token \o <<"]">>)
            \o Substituted(s, k + Len(token), m)

CleanedSequence == Trim(RemoveImagePng(code_sequence))

\* C10 as claimed: every matched image reference is replaced by the span
\* around its sequence with each token, in order, replaced by its mapped
\* string or by its bracketed literal; none is replaced by empty output.
C10_Orig_EveryReferenceGivesSpan ==
    (mode = "substitute" /\ conv_pc = "done") =>
        conv_out = SpanOpen \o Substituted(CleanedSequence, 1, mapping) \o SpanClose

\* C10: a matched image reference of which something is left once
\* "/image.png" is removed and the sequence is stripped is replaced by the
\* span around that sequence with each token, in order, replaced by its
\* mapped string or by its bracketed literal, no token deleted; a reference
\* of which nothing is left is replaced by empty output.
C10_TokensSubstitutedInSpan ==
    (mode = "substitute" /\ conv_pc = "done") =>
        IF CleanedSequence = <<>>
        THEN conv_out = <<>>
        ELSE conv_out = SpanOpen \o Substituted(CleanedSequence, 1, mapping) \o SpanClose

\* A mapped and an unmapped token with a space between them were replaced.
C10_Witness ==
    /\ mode = "substitute" /\ conv_pc = "done"
    /\ code_sequence = <<"x", "0", "0", " ", "x", "a", "a", "0">>
    /\ conv_out = SpanOpen \o <<"A", " ", "[", "x", "a", "a", "0", "]">> \o SpanClose

\* The text between the span's opening and closing tag.
SpanText == SubSeq(conv_out, 2, Len(conv_out) - 1)

Bracketed(t) == <<"[">> \o t \o <<"]">>

xZZZ == <<"x", "Z", "Z", "Z">>

\* The tokens of s that are no key of m.
UnmappedTokens(s, m) ==
    {SubSeq(s, k, k + TokenLenAt(s, k) - 1) : k \in {j \in DOMAIN s : TokenLenAt(s, j) > 0}}
    \ DOMAIN m

\* C11 as claimed: where the sequence holds xZZZ, the output holds [xZZZ].
C11_Orig_xZZZIsBracketed ==
    (mode = "substitute" /\ conv_pc = "done" /\ Contains(xZZZ, CleanedSequence)) =>
        Contains(Bracketed(xZZZ), conv_out)

\* C11: a token ("x" and 2-3 hex digits) that is no key of the mapping and
\* stands in the sequence is in the output as its bracketed literal;
\* xZZZ holds no hex digit, is no token, and stands in the output as it is,
\* without brackets.
C11_UnmappedHexTokenIsBracketed ==
    (mode = "substitute" /\ conv_pc = "done" /\ CleanedSequence # <<>>) =>
        /\ \A t \in UnmappedTokens(CleanedSequence, mapping) :
              Contains(Bracketed(t), SpanText)
        /\ Contains(xZZZ, CleanedSequence) =>
              /\ Contains(xZZZ, SpanText)
              /\ ~Contains(Bracketed(xZZZ), SpanText)

\* An unmapped hex token and xZZZ in one sequence.
C11_Witness ==
    /\ mode = "substitute" /\ conv_pc = "done"
    /\ code_sequence = <<"x", "a", "a", "0", " ">> \o xZZZ
    /\ conv_out = SpanOpen \o Bracketed(<<"x", "a", "a", "0">>) \o <<" ">> \o xZZZ \o SpanClose

\* The pieces of s between its spaces, after piece cur.
RECURSIVE SplitOnSpace(_, _)
SplitOnSpace(s, cur) ==
    IF s = <<>> THEN <<cur>>
    ELSE IF Head(s) = " " THEN <<cur>> \o SplitOnSpace(Tail(s), <<>>)
    ELSE SplitOnSpace(Tail(s), Append(cur, Head(s)))

\* The output has the spaces of s where s has them: between two spaces
\* stands the substituted text of what s has between them.
SpacesKeptFrom(s) ==
    SplitOnSpace(SpanText, <<>>) =
        [k \in DOMAIN SplitOnSpace(s, <<>>) |-> Substituted(SplitOnSpace(s, <<>>)[k], 1, mapping)]

ExampleSequence == <<"x", "0", "1", "0", " ", "x", "0", "a", "2">>

ExampleMapping ==
    (<<"x", "0", "1", "0">> :> <<"U+2DE3">>) @@ (<<"x", "0", "a", "2">> :> <<"U+0487">>)

IsExample ==
    /\ mode = "substitute" /\ conv_pc = "done"
    /\ code_sequence = ExampleSequence
    /\ mapping = ExampleMapping

\* C12 as claimed: "x010 x0a2" gives the span around the two mapped
\* characters, and the output has every space of the original sequence,
\* those before the first and after the last token included.
C12_Orig_AllWhitespaceKept ==
    /\ IsExample => conv_out = SpanOpen \o <<"U+2DE3", "U+0487">> \o SpanClose
    /\ (mode = "substitute" /\ conv_pc = "done" /\ CleanedSequence # <<>>) =>
          SpacesKeptFrom(RemoveImagePng(code_sequence))

\* C12: "x010 x0a2" gives the span around the first mapped character, a
\* space and the second mapped character, and the output has every space of
\* the sequence as it is once "/image.png" is removed and it is stripped:
\* the whitespace between tokens is kept, that at either end is not.
C12_InnerWhitespaceKept ==
    /\ IsExample => conv_out = SpanOpen \o <<"U+2DE3", " ", "U+0487">> \o SpanClose
    /\ (mode = "substitute" /\ conv_pc = "done" /\ CleanedSequence # <<>>) =>
          SpacesKeptFrom(CleanedSequence)

\* The example was substituted, its space kept.
C12_Witness == IsExample /\ " " \in Range(SpanText)

\* ------------------------------ scrape_pravenc.py: extract_fields, authors

\* A name is a sequence of characters: letters "A" and "B", and spaces.
MaxAuthorEls == 2   \* div.author elements of a page

\* The texts of a div.author.
AuthorTexts ==
    { <<>>, <<" ">>, <<"A">>, <<"B">>, <<"A", " ", "B">>,
      <<"A", ",", "B">>, <<"B", ",", " ", "A">>, <<"A", ",", ",", "B">>,
      <<",", "A", " ">>, <<"A", ",", "A">>, <<" ", "B", ",">> }

\* author_text.split(','), after piece cur
RECURSIVE SplitOnComma(_, _)
SplitOnComma(s, cur) ==
    IF s = <<>> THEN <<cur>>
    ELSE IF Head(s) = "," THEN <<cur>> \o SplitOnComma(Tail(s), <<>>)
    ELSE SplitOnComma(Tail(s), Append(cur, Head(s)))

\* The loop over author_els: all_authors after the elements from k on.
RECURSIVE AllAuthors(_, _)
AllAuthors(els, k) ==
    IF k > Len(els) THEN <<>>
    ELSE LET author_text == Trim(els[k])
             pieces == SplitOnComma(author_text, <<>>)
             individual_authors == [j \in DOMAIN pieces |-> Trim(pieces[j])]
         IN (IF author_text # <<>> THEN individual_authors ELSE <<>>) \o AllAuthors(els, k + 1)

RECURSIVE KeepAllAuthors(_, _, _)
KeepAllAuthors(all, k, unique) ==
    IF k > Len(all) THEN unique
    ELSE KeepAllAuthors(all, k + 1, IF all[k] # <<>> THEN Append(unique, all[k]) ELSE unique)

\* "Remove duplicates while preserving order": the loop over all_authors
\* from k on; seen_authors is the set of the names in unique.
RECURSIVE UniqueAuthors(_, _, _)
UniqueAuthors(all, k, unique) ==
    IF k > Len(all) THEN unique
    ELSE UniqueAuthors(all, k + 1,
                       IF all[k] # <<>> /\ all[k] \notin Range(unique)
                       THEN Append(unique, all[k]) ELSE unique)

\* ", ".join(unique_authors)
RECURSIVE JoinAuthors(_)
JoinAuthors(names) ==
    IF names = <<>> THEN <<>>
    ELSE IF Len(names) = 1 THEN names[1]
    ELSE names[1] \o <<",", " ">> \o JoinAuthors(Tail(names))

InitAuth ==
    /\ IdleEntry("authors")
    /\ IdleAbs /\ IdleFlat /\ IdleConv /\ IdleOtherThanAuth
    /\ author_els \in SeqsUpTo(AuthorTexts, MaxAuthorEls)
    /\ unique_authors = <<>>
    /\ author_html = <<>>
    /\ auth_pc = "call"

\* Lines 390-407 of extract_fields.
ExtractAuthors ==
    /\ mode = "authors"
    /\ auth_pc = "call"
    /\ unique_authors' = UniqueAuthors(AllAuthors(author_els, 1), 1, <<>>)
    /\ author_html' = JoinAuthors(unique_authors')
    /\ auth_pc' = "done"
    /\ UNCHANGED <<author_els, entryVars, absVars, flatVars, convVars, otherThanAuth>>

NextAuth == ExtractAuthors

SpecAuth == InitAuth /\ [][NextAuth]_vars

\* The names of the author elements in document order: what stands between
\* the commas of each element's text, trimmed, where that is not empty.
NameAt(e, j) == Trim(SplitOnComma(author_els[e], <<>>)[j])

NamePlaces ==
    {ej \in UNION {{e} \X DOMAIN SplitOnComma(author_els[e], <<>>) : e \in DOMAIN author_els} :
        NameAt(ej[1], ej[2]) # <<>>}

Before(a, b) == a[1] < b[1] \/ (a[1] = b[1] /\ a[2] < b[2])

\* The first place where the name n stands.
FirstPlace(n) ==
    CHOOSE a \in NamePlaces :
        /\ NameAt(a[1], a[2]) = n
        /\ \A b \in NamePlaces : NameAt(b[1], b[2]) = n => (a = b \/ Before(a, b))

\* C13: the author list holds every name of the author elements once, in
\* the order of the names' first occurrences, and the author string is the
\* list joined with ", ".
C13_AuthorsUniqueInFirstOrder ==
    (mode = "authors" /\ auth_pc = "done") =>
        /\ Range(unique_authors) = {NameAt(a[1], a[2]) : a \in NamePlaces}
        /\ \A j, k \in DOMAIN unique_authors :
              j < k => /\ unique_authors[j] # unique_authors[k]
                       /\ Before(FirstPlace(unique_authors[j]), FirstPlace(unique_authors[k]))
        /\ unique_authors # <<>> =>
              [j \in DOMAIN SplitOnComma(author_html, <<>>) |->
                   Trim(SplitOnComma(author_html, <<>>)[j])] = unique_authors
        /\ Len(author_html) =
              Len(Flatten(unique_authors)) + 2 * (Len(unique_authors) - 1) * (IF unique_authors = <<>> THEN 0 ELSE 1)

\* Two elements name "A" and "B" in different orders, one name twice.
C13_Witness ==
    /\ mode = "authors" /\ auth_pc = "done"
    /\ author_els = << <<"B", ",", " ", "A">>, <<"A", ",", "B">> >>
    /\ author_html = <<"B", ",", " ", "A">>

\* --------- scrape_pravenc.py: process_content_with_references, the level

MaxHeadings == 3    \* h1..h6 elements in the body

HeadingTagLevels == 1..6

RECURSIVE MinLevel(_)
MinLevel(levels) ==
    IF Len(levels) = 1 THEN levels[1]
    ELSE Min2(levels[1], MinLevel(Tail(levels)))

ReferenceLevelUnclamped(levels) == IF levels # <<>> THEN MinLevel(levels) + 1 ELSE 1

\* "if heading_levels: min(min(heading_levels) + 1, 6) else 1"
ReferenceLevel(levels) ==
    IF levels # <<>> THEN Min2(MinLevel(levels) + 1, 6) ELSE 1

InitLevel ==
    /\ IdleEntry("level")
    /\ IdleAbs /\ IdleFlat /\ IdleConv /\ IdleOtherThanLevel
    /\ heading_levels \in SeqsUpTo(HeadingTagLevels, MaxHeadings)
    /\ level_pc = "call"

\* Lines 64-81: the levels of the body's headings give reference_level.
SetReferenceLevel ==
    /\ mode = "level"
    /\ level_pc = "call"
    /\ reference_level' = ReferenceLevel(heading_levels)
    /\ level_pc' = "done"
    /\ UNCHANGED <<heading_levels, flat_children, flat_idx, current_section, markdown_parts,
                   flat_src, flat_pc, entryVars, absVars, convVars, otherThanLevel>>

NextLevel == SetReferenceLevel

SpecLevel == InitLevel /\ [][NextLevel]_vars

\* C14: the reference heading level is one more than the least level of the
\* body's headings, 6 at most, and 1 for a body without headings; it lies
\* in 1..6, and is 3 for headings of the levels 2 and 3.
C14_ReferenceLevelIsMinPlusOne ==
    (mode = "level" /\ level_pc = "done") =>
        /\ reference_level \in 1..6
        /\ heading_levels = <<>> => reference_level = 1
        /\ \A l \in Range(heading_levels) :
              (\A h \in Range(heading_levels) : l <= h) =>
                  reference_level = IF l + 1 > 6 THEN 6 ELSE l + 1
        /\ Range(heading_levels) = {2, 3} => reference_level = 3

\* Headings of the levels 3 and 2 gave the level 3.
C14_Witness ==
    /\ mode = "level" /\ level_pc = "done"
    /\ heading_levels = <<3, 2>>
    /\ reference_level = 3

\* The characters of a text that are no whitespace, in order.
Visible(s) == SelectSeq(s, LAMBDA c : c \notin Whitespace)

\* The text of a block: that of its text nodes, in order.
BlockText(nodes) == Flatten([k \in DOMAIN nodes |-> nodes[k].text])

\* The fragments emitted for a reference block without a recognized prefix.
NoPrefixFragments ==
    {k \in DOMAIN markdown_parts :
        /\ flat_src[k].kind = "reference"
        /\ \A p \in Abbrevs : ~StartsWith(GetText(flat_src[k].nodes), Prefix(p))}

C16_OneRunResolvesAndWrapsOnce ==
    (mode = "absolutize" /\ abs_runs = 1) =>
        \A k \in DOMAIN abs_tree :
            /\ abs_tree[k].attr = Absolutized(abs_orig[k].attr, abs_base)
            /\ \A j \in DOMAIN abs_tree[k].kids :
                  abs_tree[k].kids[j].attr = Absolutized(abs_orig[k].kids[j].attr, abs_base)

\* ------------------------------------ scrape_pravenc.py: build_front_matter

\* A value is a sequence of characters; "<b>" and "</b>" are one character
\* each, the tags of author_html.
TagChars == {"<b>", "</b>"}

\* BeautifulSoup(author_html).get_text(" ", strip=True): the strings between
\* the tags of s, after string cur, each stripped, the empty ones left out.
RECURSIVE StrippedStrings(_, _)
StrippedStrings(s, cur) ==
    LET done == IF Trim(cur) = <<>> THEN <<>> ELSE <<Trim(cur)>>
    IN IF s = <<>> THEN done
       ELSE IF Head(s) \in TagChars THEN done \o StrippedStrings(Tail(s), <<>>)
       ELSE StrippedStrings(Tail(s), Append(cur, Head(s)))

RECURSIVE JoinWithSpace(_)
JoinWithSpace(strs) ==
    IF strs = <<>> THEN <<>>
    ELSE IF Len(strs) = 1 THEN strs[1]
    ELSE strs[1] \o <<" ">> \o JoinWithSpace(Tail(strs))

AuthorText(html) == IF html # <<>> THEN JoinWithSpace(StrippedStrings(html, <<>>)) ELSE <<>>

\* None
None == <<"None">>

\* "x or None"
OrNone(v) == IF v # <<>> THEN v ELSE None

\* The clock's readings, as utcnow() formats them.
Timestamps == {<<"t", "1", "Z">>, <<"t", "2", "Z">>}

FrontMatterArgs ==
    [article_title : {<<>>, <<"T">>, <<"n", "u", "l", "l">>},
     author_html : {<<>>, <<"A">>, <<"<b>", "</b>">>, <<"A", "<b>", " ", "B", "</b>">>},
     volume : {<<>>, <<"5">>},
     page_numbers : {<<>>, <<"1", "-", "2">>},
     source_url : {<<>>, <<"u">>}]

\* The dict "data" in insertion order.
FrontMatterData(a, now) ==
    << [key |-> "article_title", value |-> OrNone(a.article_title)],
       [key |-> "author", value |-> OrNone(AuthorText(a.author_html))],
       [key |-> "volume", value |-> OrNone(a.volume)],
       [key |-> "page_numbers", value |-> OrNone(a.page_numbers)],
       [key |-> "source_url", value |-> a.source_url],
       [key |-> "downloaded_at", value |-> now] >>

KeepEveryPair(data) == data

\* {k: v for k, v in data.items() if v not in (None, "")}
DropEmpty(data) == SelectSeq(data, LAMBDA kv : kv.value # None /\ kv.value # <<>>)

InitFront ==
    /\ IdleEntry("front_matter")
    /\ IdleAbs /\ IdleFlat /\ IdleConv /\ IdleOtherThanFront
    /\ fm_args \in FrontMatterArgs
    /\ front_matter = <<>>
    /\ front_pc = "call"

\* build_front_matter: yaml.safe_dump(..., sort_keys=False) writes the pairs
\* of data in their order.
BuildFrontMatter(now) ==
    /\ mode = "front_matter"
    /\ front_pc = "call"
    /\ front_matter' = DropEmpty(FrontMatterData(fm_args, now))
    /\ front_pc' = "done"
    /\ UNCHANGED <<fm_args, entryVars, absVars, flatVars, convVars, otherThanFront>>

NextFront == \E now \in Timestamps : BuildFrontMatter(now)

SpecFront == InitFront /\ [][NextFront]_vars

FrontMatterKeys ==
    <<"article_title", "author", "volume", "page_numbers", "source_url", "downloaded_at">>

KeyIndex(key) == CHOOSE k \in DOMAIN FrontMatterKeys : FrontMatterKeys[k] = key

EmittedKeys == {front_matter[k].key : k \in DOMAIN front_matter}

\* C17: the front matter's keys are keys of the fixed list, in the list's
\* order and each at most once; no emitted value is null or empty; a key
\* whose argument is empty is not emitted, and a key whose argument is not
\* empty is.
C17_FrontMatterKeysInOrderNoEmpty ==
    (mode = "front_matter" /\ front_pc = "done") =>
        /\ \A k \in DOMAIN front_matter : front_matter[k].key \in Range(FrontMatterKeys)
        /\ \A j, k \in DOMAIN front_matter :
              j < k => KeyIndex(front_matter[j].key) < KeyIndex(front_matter[k].key)
        /\ \A k \in DOMAIN front_matter :
              front_matter[k].value # <<>> /\ front_matter[k].value # None
        /\ "article_title" \in EmittedKeys <=> fm_args.article_title # <<>>
        /\ "volume" \in EmittedKeys <=> fm_args.volume # <<>>
        /\ "page_numbers" \in EmittedKeys <=> fm_args.page_numbers # <<>>
        /\ "source_url" \in EmittedKeys <=> fm_args.source_url # <<>>
        /\ fm_args.author_html = <<>> => "author" \notin EmittedKeys
        /\ "downloaded_at" \in EmittedKeys

\* Title and page numbers are empty: the other four keys stand in order.
C17_Witness ==
    /\ mode = "front_matter" /\ front_pc = "done"
    /\ fm_args.article_title = <<>> /\ fm_args.page_numbers = <<>>
    /\ [k \in DOMAIN front_matter |-> front_matter[k].key] =
          <<"author", "volume", "source_url", "downloaded_at">>

\* --------------------------------------- scrape_pravenc.py: url_to_basename

\* A URL is a sequence of characters; "https:" and ".html" are one character
\* each, "1" and "2" are the digits, "a" and "A" a letter in both cases, "!"
\* a character that no file name keeps.
MaxSeg == 3         \* characters of a URL's last path segment

SlugLimit == 120

Digits == {"1", "2"}

SlugChars == {"a", "1", "2", "-", ".", "_"}

SegChars == {"1", "a", "A", " ", "!", "-", ".html"}

ArticleUrlHead == <<"https:", "/", "/", "a", "/", "a", "/">>

\* What follows the last segment: nothing, a slash, a query.
UrlTails == {<<>>, <<"/">>, <<"?", "a">>, <<"?", "1">>}

LongSegment == [k \in 1..(SlugLimit + 1) |-> "a"]

ArticleUrls ==
    {ArticleUrlHead \o seg \o tail : seg \in SeqsUpTo(SegChars, MaxSeg), tail \in UrlTails}
    \cup {ArticleUrlHead \o LongSegment}

\* str.lower()
Lower(s) == [k \in DOMAIN s |-> IF s[k] = "A" THEN "a" ELSE s[k]]

\* The characters of s at the positions idx, in order.
CharsAt(s, idx) ==
    [j \in 1..Cardinality(idx) |->
        s[CHOOSE k \in idx : Cardinality({h \in idx : h < k}) = j - 1]]

\* s with every run of characters of the set run cut to its first character.
FirstOfRuns(s, run) ==
    CharsAt(s, {k \in DOMAIN s : ~(s[k] \in run /\ k > 1 /\ s[k - 1] \in run)})

\* re.sub(r"\s+", "-", text)
DashForSpaces(s) ==
    LET t == FirstOfRuns(s, Whitespace)
    IN [k \in DOMAIN t |-> IF t[k] \in Whitespace THEN "-" ELSE t[k]]

\* re.sub(r"-+", "-", text)
OneDash(s) == FirstOfRuns(s, {"-"})

SanitizeNoFallback(text) ==
    LET clean == OneDash(SelectSeq(DashForSpaces(Lower(Trim(text))), LAMBDA c : c \in SlugChars))
    IN SubSeq(clean, 1, Min2(Len(clean), SlugLimit))

\* sanitize_filename(text)
SanitizeFilename(text) ==
    LET clean == OneDash(SelectSeq(DashForSpaces(Lower(Trim(text))), LAMBDA c : c \in SlugChars))
        cut == SubSeq(clean, 1, Min2(Len(clean), SlugLimit))
    IN IF cut # <<>> THEN cut ELSE <<"a", "r", "t", "i", "c", "l", "e">>

\* The digits at the end of s.
RECURSIVE DigitsAtEnd(_)
DigitsAtEnd(s) ==
    IF s # <<>> /\ s[Len(s)] \in Digits
    THEN Append(DigitsAtEnd(SubSeq(s, 1, Len(s) - 1)), s[Len(s)])
    ELSE <<>>

\* m.group(1) of re.search(r"/(\d+)(?:\.html)?$", url), <<>> for no match
IdMatch(url) ==
    LET stem == IF url # <<>> /\ url[Len(url)] = ".html" THEN SubSeq(url, 1, Len(url) - 1) ELSE url
        d == DigitsAtEnd(stem)
    IN IF d # <<>> /\ Len(stem) > Len(d) /\ stem[Len(stem) - Len(d)] = "/" THEN d ELSE <<>>

\* url.rstrip("/")
RECURSIVE RStripSlash(_)
RStripSlash(s) ==
    IF s # <<>> /\ s[Len(s)] = "/" THEN RStripSlash(SubSeq(s, 1, Len(s) - 1)) ELSE s

\* s.split(sep)[-1]
AfterLast(s, sep) ==
    LET at == {k \in DOMAIN s : s[k] = sep}
    IN IF at = {} THEN s
       ELSE SubSeq(s, (CHOOSE k \in at : \A h \in at : h <= k) + 1, Len(s))

\* s.split(sep)[0]
BeforeFirst(s, sep) ==
    LET at == {k \in DOMAIN s : s[k] = sep}
    IN IF at = {} THEN s
       ELSE SubSeq(s, 1, (CHOOSE k \in at : \A h \in at : k <= h) - 1)

\* url_to_basename(url)
UrlToBasename(url) ==
    IF IdMatch(url) # <<>> THEN IdMatch(url)
    ELSE LET last == AfterLast(RStripSlash(url), "/")
             noQuery == BeforeFirst(last, "?")
             noHtml == SelectSeq(noQuery, LAMBDA c : c # ".html")
         IN SanitizeFilename(noHtml)

InitName ==
    /\ IdleEntry("basename")
    /\ IdleAbs /\ IdleFlat /\ IdleConv /\ IdleOtherThanName
    /\ name_url \in ArticleUrls
    /\ base_name = <<>>
    /\ name_pc = "call"

\* The regular expression found the numeric ID.
NameFromId ==
    /\ mode = "basename"
    /\ name_pc = "call"
    /\ IdMatch(name_url) # <<>>
    /\ base_name' = UrlToBasename(name_url)
    /\ name_pc' = "done"
    /\ UNCHANGED <<name_url, entryVars, absVars, flatVars, convVars, otherThanName>>

\* It did not: the last segment is sanitized.
NameFromSlug ==
    /\ mode = "basename"
    /\ name_pc = "call"
    /\ IdMatch(name_url) = <<>>
    /\ base_name' = UrlToBasename(name_url)
    /\ name_pc' = "done"
    /\ UNCHANGED <<name_url, entryVars, absVars, flatVars, convVars, otherThanName>>

NextName == NameFromId \/ NameFromSlug

SpecName == InitName /\ [][NextName]_vars

\* The last segment of the URL's path that is not empty, without the
\* ".html" at its end.
NamedSegment ==
    LET path == BeforeFirst(name_url, "?")
        seg == AfterLast(RStripSlash(path), "/")
    IN IF seg # <<>> /\ seg[Len(seg)] = ".html" THEN SubSeq(seg, 1, Len(seg) - 1) ELSE seg

LettersDigits(s) == SelectSeq(s, LAMBDA c : c \in {"a", "1", "2"})

IsPrefix(p, s) == Len(p) <= Len(s) /\ SubSeq(s, 1, Len(p)) = p

\* C18: the base name is the numeric ID where the last path segment is
\* digits, with or without ".html" after them; elsewhere it is not empty, at
\* most 120 characters long, made of a-z, 0-9, "-", "." and "_" only, and
\* its letters and digits are those of the segment in lower case, from the
\* segment's start on, or it is "article".
C18_BaseNameIsIdOrSlug ==
    (mode = "basename" /\ name_pc = "done") =>
        IF NamedSegment # <<>> /\ Range(NamedSegment) \subseteq Digits
        THEN base_name = NamedSegment
        ELSE /\ base_name # <<>>
             /\ Len(base_name) <= 120
             /\ Range(base_name) \subseteq {"a", "r", "t", "i", "c", "l", "e", "1", "2", "-", ".", "_"}
             /\ \/ base_name = <<"a", "r", "t", "i", "c", "l", "e">>
                \/ IsPrefix(LettersDigits(base_name), LettersDigits(Lower(NamedSegment)))
             /\ LettersDigits(Lower(NamedSegment)) = <<>> =>
                   \/ base_name = <<"a", "r", "t", "i", "c", "l", "e">>
                   \/ Range(base_name) \subseteq {"-", ".", "_"}

\* A slug with an upper-case letter and a space, and the longest segment cut.
C18_Witness ==
    /\ mode = "basename" /\ name_pc = "done"
    /\ \/ name_url = ArticleUrlHead \o <<"A", " ", "1">> /\ base_name = <<"a", "-", "1">>
       \/ name_url = ArticleUrlHead \o LongSegment /\ Len(base_name) = 120

\* ------------------------------------------------- delays between requests

\* The follower is about to fetch: each pass of its loop starts with one
\* fetch_html call.
FollowerFetchesNext == mode = "all" /\ pc = "loop" /\ current_url # NoUrl

\* C19: in a follow run no fetch comes after an earlier fetch without a
\* sleep between them: whenever the follower is about to fetch, it has made
\* no request yet or has slept since its last one.
C19_FollowerSleepsBetweenFetches == FollowerFetchesNext => slept

\* A second fetch is due, after a saved article and the sleep.
C19_Witness == FollowerFetchesNext /\ article_count = 1 /\ slept /\ saved # {}

\* The crawl is about to request a page.
CrawlRequestsNext == mode = "crawl" /\ pc = "loop" /\ page_num <= end_page

\* The batch driver is about to run the scraper on a URL after an earlier
\* one, and no exception has reached the handler of its loop (a scraper run
\* that fails is reported by its return code, not by an exception).
BatchRequestsNext ==
    /\ mode = "batch" /\ pc = "loop" /\ url_file = "ok"
    /\ 1 < i /\ i <= Len(urls) /\ ~errout

\* The batch driver has gone through all its URLs.
BatchAfterLast == mode = "batch" /\ url_file = "ok" /\ urls # <<>> /\ i > Len(urls)

\* C20: in the listing crawl and in the batch driver a request that follows
\* another one comes after a sleep, also where the earlier request failed;
\* the batch driver does not sleep after its last URL.  Stated as claimed;
\* the crawl's handlers for a non-404 HTTP error and for any other exception
\* continue with the next page without the sleep.
C20_CrawlAndBatchSleepBetweenRequests ==
    /\ CrawlRequestsNext => slept
    /\ BatchRequestsNext => slept
    /\ BatchAfterLast => ~slept

\* ------------------------------------------- reference blocks: the prefix

\* The first text node of a block whose stripped text starts with the
\* prefix (0: none does).
FirstPrefixNode(nodes, p) ==
    LET at == {k \in DOMAIN nodes : StartsWith(Trim(nodes[k].text), Prefix(p))}
    IN IF at = {} THEN 0 ELSE CHOOSE k \in at : \A j \in at : k <= j

\* The block with the prefix taken out of that text node only.
RemoveFirstAbbrev(nodes, p) ==
    [k \in DOMAIN nodes |->
        IF k = FirstPrefixNode(nodes, p) THEN RemoveAbbrev(<<nodes[k]>>, p)[1] ELSE nodes[k]]

\* The fragments of the reference blocks whose matched prefix stands at the
\* start of one of their text nodes.
PrefixedFragments ==
    {k \in DOMAIN markdown_parts :
        /\ flat_src[k].kind = "reference"
        /\ MatchedAbbrev(GetText(flat_src[k].nodes)) # "none"
        /\ FirstPrefixNode(flat_src[k].nodes, MatchedAbbrev(GetText(flat_src[k].nodes))) # 0}

\* C22: where a reference block's prefix matched, the first occurrence of
\* the prefix is removed and nothing else: the fragment's body is the
\* rendering of the block with the prefix taken out of the first text node
\* that starts with it, every later text node unchanged.  Stated as claimed;
\* the removal loop strips the prefix from every text node that starts with
\* it.
C22_OnlyFirstPrefixRemoved ==
    \A k \in PrefixedFragments :
        markdown_parts[k].body =
            Trim(MdInline(RemoveFirstAbbrev(flat_src[k].nodes,
                                            MatchedAbbrev(GetText(flat_src[k].nodes)))))

\* ------------------------------- reference blocks: empty ones, deep ones

\* The reference blocks the loop has come to: the children before flat_idx
\* and the children of those that are elements.
ProcessedBlocks ==
    {flat_children[j] : j \in {n \in 1..(flat_idx - 1) : flat_children[n].kind = "reference"}}
    \cup UNION {{flat_children[j].kids[n] :
                    n \in {m \in DOMAIN flat_children[j].kids :
                              flat_children[j].kids[m].kind = "reference"}} :
                j \in {n \in 1..(flat_idx - 1) : flat_children[n].kind = "element"}}

\* The rendering of a block after its prefix, if any, is taken out.
StrippedMd(nodes) ==
    LET p == MatchedAbbrev(GetText(nodes))
    IN Trim(MdInline(IF p = "none" THEN nodes ELSE RemoveAbbrev(nodes, p)))

\* C25: a reference block with nothing left after its prefix is taken out
\* still gives a fragment: the heading marker, the category title and an
\* empty body.
C25_EmptyBlockKeepsHeading ==
    \A c \in ProcessedBlocks :
        StrippedMd(c.nodes) = <<>> =>
            \E k \in DOMAIN markdown_parts :
                /\ flat_src[k] = c
                /\ markdown_parts[k] =
                      Fragment(reference_level,
                               HeadingText(MatchedAbbrev(GetText(c.nodes))), <<>>)

\* A block that holds only its prefix was emitted, directly below the
\* content div and one container deeper.
C25_Witness ==
    /\ flat_pc = "done"
    /\ flat_children = <<ReferenceDiv(<<TextNode(Prefix("Lit"))>>),
                         Wrapper(<<Para, ReferenceDiv(<<TextNode(Prefix("Lit"))>>)>>)>>
    /\ Len(markdown_parts) = 3
    /\ markdown_parts[1] = Fragment(reference_level, "Literatura", <<>>)
    /\ markdown_parts[3] = Fragment(reference_level, "Literatura", <<>>)

\* The elements two levels below the content div that hold reference
\* blocks, among the children the loop has come to.
DeepContainers ==
    UNION {{flat_children[j].kids[n] :
               n \in {m \in DOMAIN flat_children[j].kids :
                         /\ flat_children[j].kids[m].kind = "element"
                         /\ ContainsRefs(flat_children[j].kids[m])}} :
           j \in {n \in 1..(flat_idx - 1) : flat_children[n].kind = "element"}}

\* C26: a reference block more than one container below the content div
\* gets no fragment of its own, so no heading and no stripping: the element
\* it stands in is rendered whole, prefix included, inside a section
\* fragment.
C26_DeepBlockFallsThrough ==
    \A b \in DeepContainers :
        /\ \A k \in DOMAIN markdown_parts : flat_src[k] \notin Range(b.kids)
        /\ \E k \in DOMAIN markdown_parts :
              /\ markdown_parts[k].marker = 0
              /\ flat_src[k].kind = "section"
              /\ b \in Range(flat_src[k].kids)
              /\ Contains(Trim(MdAll(<<b>>)), markdown_parts[k].body)
              /\ Contains(Prefix("Soch"), markdown_parts[k].body)

\* A deep block after a paragraph came out as one section with its prefix.
C26_Witness ==
    /\ flat_pc = "done"
    /\ flat_children = <<Wrapper(<<Para, Wrapper(<<Para, ReferenceDiv(DeepBlock)>>)>>)>>
    /\ Len(markdown_parts) = 1
    /\ markdown_parts[1].marker = 0
    /\ Contains(Prefix("Soch") \o <<"T", "T">>, markdown_parts[1].body)

\* ------------- scrape_pravenc.py: process_content_with_references, the body

MaxBody == 2    \* children of the article body container

\* "Sod" is the word the table of contents starts with, one character like
\* the abbreviations; "#" is the heading marker of the rendering.
Soderzhanie == <<"Sod">>

\* A child of the body: its tag, its class ("none": no class attribute), and
\* what it holds, as for the children of the content div.
BodyNode(tag, class, nodes, kids) ==
    [tag |-> tag, class |-> class,
     kind |-> IF tag = "text" THEN "string"
              ELSE IF tag = "div" /\ class = "reference" THEN "reference"
              ELSE "element",
     nodes |-> nodes, kids |-> kids]

\* What the unclassed main content div can hold.
MainContents ==
    { <<>>,
      <<Str(<<" ">>)>>,
      <<Para>>,
      <<Para, ReferenceDiv(<<TextNode(Prefix("Lit") \o <<" ", "T">>)>>)>>,
      <<ReferenceDiv(<<TextNode(Prefix("Soch") \o <<"T">>)>>), Str(<<"T">>)>>,
      <<Str(<<"T">>), ReferenceDiv(NoPrefixBlock), Para>>,
      <<ReferenceDiv(<<TextNode(Prefix("Lit"))>>)>>,
      <<Para, Wrapper(<<Para, ReferenceDiv(<<TextNode(Prefix("Ist") \o <<"T">>)>>), Para>>), Para>>,
      <<Str(<<"T">>), Wrapper(<<Para, Wrapper(<<Para, ReferenceDiv(DeepBlock)>>)>>)>>,
      <<Str(Soderzhanie), Para>>,
      <<Para, Str(Soderzhanie)>> }

BodyChildren ==
    {BodyNode("div", "none", <<>>, kids) : kids \in MainContents}
    \cup {BodyNode("div", c, <<TextNode(<<"T">>)>>, <<>>) : c \in {"content", "toc", "other"}}
    \cup {BodyNode("div", c, <<TextNode(<<" ">> \o Soderzhanie \o <<" ", "T">>)>>, <<>>) :
             c \in {"other", "reference"}}
    \cup {BodyNode("div", "reference", b, <<>>) :
             b \in {<<TextNode(Prefix("Lit") \o <<" ", "T">>)>>, NoPrefixBlock}}
    \cup {BodyNode("h1", c, <<TextNode(<<"T">>)>>, <<>>) : c \in {"article_title", "none"}}
    \cup {BodyNode("p", "none", <<TextNode(t)>>, <<>>) : t \in {<<"T">>, Soderzhanie}}
    \cup {BodyNode("text", "none", <<TextNode(t)>>, <<>>) : t \in {<<"T">>, <<" ">>}}

\* child.get_text(strip=True): the stripped strings of every descendant.
RECURSIVE GetTextAll(_)
GetTextAll(cs) ==
    IF cs = <<>> THEN <<>>
    ELSE GetText(Head(cs).nodes) \o GetTextAll(Head(cs).kids) \o GetTextAll(Tail(cs))

\* The chain of tests without the one on the text of a div.
BranchByClassOnly(child) ==
    IF child.tag = "div" /\ child.class = "content" THEN "content"
    ELSE IF child.tag = "div" /\ child.class = "toc" THEN "toc"
    ELSE IF child.tag = "h1" /\ child.class = "article_title" THEN "title"
    ELSE IF child.tag = "div" /\ child.class = "none" THEN "nested"
    ELSE IF child.tag # "text" THEN "element"
    ELSE "string"

\* The branch of the if/elif chain that a child of the body takes.
Branch(child) ==
    IF child.tag = "div" /\ child.class = "content" THEN "content"
    ELSE IF child.tag = "div" /\ StartsWith(GetTextAll(<<child>>), Soderzhanie)
    THEN "soderzhanie"
    ELSE IF child.tag = "div" /\ child.class = "toc" THEN "toc"
    ELSE IF child.tag = "h1" /\ child.class = "article_title" THEN "title"
    ELSE IF child.tag = "div" /\ child.class = "none" THEN "nested"
    ELSE IF child.tag # "text" THEN "element"
    ELSE "string"

\* A loop over content_div.children that emits a reference block before the
\* section collected in front of it.
RECURSIVE ProcessNestedReferenceFirst(_, _, _, _)
ProcessNestedReferenceFirst(children, k, section, level) ==
    IF k > Len(children) THEN FlushSection(section)
    ELSE IF children[k].kind = "reference"
    THEN <<Emitted(ReferenceFragment(children[k], level), children[k])>>
         \o FlushSection(section)
         \o ProcessNestedReferenceFirst(children, k + 1, <<>>, level)
    ELSE IF children[k].kind = "element" /\ ContainsRefs(children[k])
    THEN ProcessElementWithReferences(children[k].kids, 1, <<>>, level)
         \o FlushSection(section)
         \o ProcessNestedReferenceFirst(children, k + 1, <<>>, level)
    ELSE IF children[k].kind = "element" \/ Trim(children[k].nodes[1].text) # <<>>
    THEN ProcessNestedReferenceFirst(children, k + 1, Append(section, children[k]), level)
    ELSE ProcessNestedReferenceFirst(children, k + 1, section, level)

\* process_nested_content as one call: the loop over content_div.children
\* from child k on, with the section collected so far.
RECURSIVE ProcessNestedContent(_, _, _, _)
ProcessNestedContent(children, k, section, level) ==
    IF k > Len(children) THEN FlushSection(section)
    ELSE IF children[k].kind = "reference"
    THEN FlushSection(section)
         \o <<Emitted(ReferenceFragment(children[k], level), children[k])>>
         \o ProcessNestedContent(children, k + 1, <<>>, level)
    ELSE IF children[k].kind = "element" /\ ContainsRefs(children[k])
    THEN FlushSection(section)
         \o ProcessElementWithReferences(children[k].kids, 1, <<>>, level)
         \o ProcessNestedContent(children, k + 1, <<>>, level)
    ELSE IF children[k].kind = "element" \/ Trim(children[k].nodes[1].text) # <<>>
    THEN ProcessNestedContent(children, k + 1, Append(section, children[k]), level)
    ELSE ProcessNestedContent(children, k + 1, section, level)

\* md(str(child), ...): a heading tag gets its marker, any other element is
\* rendered as in a section.
MdChild(child) ==
    IF child.tag = "h1" THEN <<"#", " ">> \o MdInline(child.nodes)
    ELSE MdAll(<<child>>)

\* The text of a fragment: the heading line and a blank line before the
\* body of a reference fragment.
Hashes(n) == [k \in 1..n |-> "#"]

Render(f) ==
    IF f.marker = 0 THEN f.body
    ELSE Hashes(f.marker) \o <<" ", f.title, "\n", "\n">> \o f.body

\* '\n\n'.join(markdown_parts)
RECURSIVE JoinParts(_)
JoinParts(parts) ==
    IF parts = <<>> THEN <<>>
    ELSE IF Len(parts) = 1 THEN Render(parts[1])
    ELSE Render(parts[1]) \o <<"\n", "\n">> \o JoinParts(Tail(parts))

InitBody ==
    /\ IdleEntry("body")
    /\ IdleAbs /\ IdleFlat /\ IdleConv /\ IdleOtherThanBody
    /\ reference_prefix \in ReferenceLevels
    /\ body_children \in {cs \in SeqsUpTo(BodyChildren, MaxBody) : ParsedChildren(cs)}
    /\ body_idx = 1
    /\ body_parts = <<>>
    /\ body_src = <<>>
    /\ body_from = <<>>
    /\ content_md = <<>>
    /\ body_pc = "loop"

BodyGuard(branch) ==
    /\ mode = "body"
    /\ body_pc = "loop"
    /\ body_idx <= Len(body_children)
    /\ Branch(body_children[body_idx]) = branch

\* One pass of the loop appends these to markdown_parts.
BodyEmit(em) ==
    /\ body_parts' = body_parts \o [k \in DOMAIN em |-> em[k].frag]
    /\ body_src' = body_src \o [k \in DOMAIN em |-> em[k].src]
    /\ body_from' = body_from \o [k \in DOMAIN em |-> body_idx]
    /\ body_idx' = body_idx + 1
    /\ UNCHANGED <<reference_prefix, body_children, content_md, body_pc>>
    /\ UNCHANGED <<entryVars, absVars, flatVars, convVars, otherThanBody>>

\* The four branches that "continue".
BodySkipContent == BodyGuard("content") /\ BodyEmit(<<>>)

BodySkipSoderzhanie == BodyGuard("soderzhanie") /\ BodyEmit(<<>>)

BodySkipToc == BodyGuard("toc") /\ BodyEmit(<<>>)

BodySkipTitle == BodyGuard("title") /\ BodyEmit(<<>>)

\* The unclassed div: process_nested_content appends its fragments.
BodyNested ==
    /\ BodyGuard("nested")
    /\ BodyEmit(ProcessNestedContent(body_children[body_idx].kids, 1, <<>>, reference_prefix))

\* Any other element: its Markdown, if there is any.
BodyElement ==
    /\ BodyGuard("element")
    /\ LET child_md == Trim(MdChild(body_children[body_idx]))
       IN BodyEmit(IF child_md = <<>> THEN <<>>
                   ELSE <<Emitted(Fragment(0, "", child_md), body_children[body_idx])>>)

\* A string: its stripped text, if there is any.
BodyString ==
    /\ BodyGuard("string")
    /\ LET text_content == Trim(body_children[body_idx].nodes[1].text)
       IN BodyEmit(IF text_content = <<>> THEN <<>>
                   ELSE <<Emitted(Fragment(0, "", text_content), body_children[body_idx])>>)

\* After the loop: the parts joined and stripped.
BodyReturn ==
    /\ mode = "body"
    /\ body_pc = "loop"
    /\ body_idx > Len(body_children)
    /\ content_md' = Trim(JoinParts(body_parts))
    /\ body_pc' = "done"
    /\ UNCHANGED <<reference_prefix, body_children, body_idx, body_parts, body_src, body_from>>
    /\ UNCHANGED <<entryVars, absVars, flatVars, convVars, otherThanBody>>

NextBody ==
    \/ BodySkipContent \/ BodySkipSoderzhanie \/ BodySkipToc \/ BodySkipTitle
    \/ BodyNested \/ BodyElement \/ BodyString \/ BodyReturn

SpecBody == InitBody /\ [][NextBody]_vars

\* C21: a reference block is emitted as a fragment of its own, with the
\* heading marker, the category title and its prefix taken out, also where
\* it is a direct child of the body.  Stated as claimed; a div.reference
\* directly below the body takes the generic branch of the loop.
C21_ReferenceBlockBelowBodyIsReheadered ==
    \A k \in DOMAIN body_parts :
        body_src[k].kind = "reference" =>
            body_parts[k] =
                Fragment(reference_prefix,
                         HeadingText(MatchedAbbrev(GetText(body_src[k].nodes))),
                         StrippedMd(body_src[k].nodes))

\* ------------------------------------------------ what the body loop drops

\* A table-of-contents container or the duplicated title.
IsTocOrTitle(c) ==
    \/ c.tag = "div" /\ c.class \in {"content", "toc"}
    \/ c.tag = "div" /\ StartsWith(Trim(GetTextAll(<<c>>)), Soderzhanie)
    \/ c.tag = "h1" /\ c.class = "article_title"

\* Every character of a node's text, in document order.
RECURSIVE AllText(_)
AllText(cs) ==
    IF cs = <<>> THEN <<>>
    ELSE BlockText(Head(cs).nodes) \o AllText(Head(cs).kids) \o AllText(Tail(cs))

\* A child with nothing to show: no visible text and no reference block.
IsEmptyChild(c) == Visible(AllText(<<c>>)) = <<>> /\ ~ContainsRefs(c)

\* The fragments that came from child j of the body, in order.
PartsFrom(j) == {k \in DOMAIN body_parts : body_from[k] = j}

RECURSIVE VisibleOfParts(_, _)
VisibleOfParts(j, k) ==
    IF k > Len(body_parts) THEN <<>>
    ELSE (IF body_from[k] = j THEN Visible(body_parts[k].body) ELSE <<>>)
         \o VisibleOfParts(j, k + 1)

\* The heading marker that the rendering puts before a heading's text.
OwnMarker(c) == IF c.tag = "h1" THEN <<"#">> ELSE <<>>

\* C24: of the children of the body that the loop has passed, exactly the
\* table-of-contents containers, the duplicated title and the empty ones
\* gave no fragment; a child without reference blocks that gave fragments
\* gave every visible character of its text, in order.
C24_OnlyTocAndTitleAreDropped ==
    \A j \in 1..(body_idx - 1) :
        LET c == body_children[j]
        IN /\ PartsFrom(j) = {} <=> (IsTocOrTitle(c) \/ IsEmptyChild(c))
           /\ (PartsFrom(j) # {} /\ c.kind # "reference" /\ ~ContainsRefs(c)) =>
                  VisibleOfParts(j, 1) = OwnMarker(c) \o Visible(AllText(<<c>>))

\* An unclassed div that starts with the word and a classed one were
\* dropped, the unclassed main content div after them was not.
C24_Witness ==
    /\ body_pc = "done"
    /\ Len(body_children) = 2
    /\ body_children[1] = BodyNode("div", "none", <<>>, <<Str(Soderzhanie), Para>>)
    /\ body_children[2] = BodyNode("div", "none", <<>>, <<Para>>)
    /\ body_from = <<2>>
    /\ content_md = <<"T">>

\* ------------------------------------------------ the order of the output

\* What a reference block shows: the marker, the title, and its text
\* without the prefix that was taken out.
ExpectedOfBlock(c, level) ==
    Hashes(level) \o <<HeadingText(MatchedAbbrev(GetText(c.nodes)))>>
    \o Visible(StrippedMd(c.nodes))

\* What the children of a container show, in document order: a reference
\* block among the children of the content div (depth 0) or of one of its
\* elements (depth 1) shows as a block, everything else shows its text.
RECURSIVE ExpectedVisible(_, _, _)
ExpectedVisible(cs, depth, level) ==
    IF cs = <<>> THEN <<>>
    ELSE LET c == Head(cs)
         IN (IF c.kind = "reference" THEN ExpectedOfBlock(c, level)
             ELSE IF c.kind = "element" /\ depth = 0 /\ ContainsRefs(c)
             THEN Visible(BlockText(c.nodes)) \o ExpectedVisible(c.kids, 1, level)
             ELSE Visible(AllText(<<c>>)))
            \o ExpectedVisible(Tail(cs), depth, level)

\* What the body shows: nothing for a dropped child, the above for the
\* unclassed div, the text for any other child.
RECURSIVE ExpectedOfBody(_, _)
ExpectedOfBody(cs, level) ==
    IF cs = <<>> THEN <<>>
    ELSE LET c == Head(cs)
         IN (IF IsTocOrTitle(c) THEN <<>>
             ELSE IF c.tag = "div" /\ c.class = "none"
             THEN ExpectedVisible(c.kids, 0, level)
             ELSE OwnMarker(c) \o Visible(AllText(<<c>>)))
            \o ExpectedOfBody(Tail(cs), level)

\* C23: the returned Markdown shows the content of the document in document
\* order, nothing lost and nothing twice, each reference block after what
\* precedes it and before what follows it; two fragments in a row are
\* joined by one blank line, and the result neither starts nor ends with
\* whitespace.
C23_FragmentsInDocumentOrder ==
    body_pc = "done" =>
        /\ Visible(content_md) = ExpectedOfBody(body_children, reference_prefix)
        /\ \A k \in 1..(Len(body_parts) - 1) :
              Contains(Render(body_parts[k]) \o <<"\n", "\n">>
                          \o RTrim(Render(body_parts[k + 1])), content_md)
        /\ content_md # <<>> =>
              /\ content_md[1] \notin Whitespace
              /\ content_md[Len(content_md)] \notin Whitespace

\* A section, a reference block one container deep between two
\* paragraphs, and the section after it came out as five fragments in order.
C23_Witness ==
    /\ body_pc = "done"
    /\ body_children =
          <<BodyNode("div", "none", <<>>,
               <<Para, Wrapper(<<Para, ReferenceDiv(<<TextNode(Prefix("Ist") \o <<"T">>)>>), Para>>),
                 Para>>)>>
    /\ reference_prefix = 1
    /\ Len(body_parts) = 5
    /\ content_md = <<"T", "\n", "\n", "T", "\n", "\n",
                      "#", " ", "Istochniki", "\n", "\n", "T", "\n", "\n",
                      "T", "\n", "\n", "T">>

\* ------------------------------------------------- the follower's counting

\* In every state of a follow run the count is the number of saves, and a
\* run that stopped for want of a next link has fetched, saved and counted
\* the article it stopped at.
FollowCountsSaves ==
    mode = "all" =>
        /\ article_count = saves
        /\ stop = "nonext" =>
              /\ Fetched(last_fetch) /\ ~IsNotFoundPage(last_fetch)
              /\ current_url \in saved
              /\ article_count >= 1
              /\ summary = [processed |-> article_count]

\* A step of a follow run that saves an article has fetched it, without a
\* not-found marker; a step that stays in the loop has saved and counted
\* the article it fetched and goes on to the next link of that article.
FollowStep ==
    mode = "all" =>
        /\ (saves' # saves \/ saved' # saved) =>
              /\ Fetched(last_fetch') /\ ~IsNotFoundPage(last_fetch')
              /\ saved' = saved \cup {current_url}
        /\ (pc = "loop" /\ pc' = "loop") =>
              /\ Fetched(last_fetch') /\ ~IsNotFoundPage(last_fetch')
              /\ current_url \in saved'
              /\ article_count' = Bump(article_count)
              /\ site[current_url] # NoUrl
              /\ current_url' = site[current_url]

\* C27: in a follow run article_count is the number of articles saved so
\* far; each saved article was fetched and held no not-found marker; a run
\* that stops for want of a next link has saved and counted the last
\* fetched article; each step that stays in the loop goes to the next link
\* of the article just saved.
C27_FollowerCountsWhatItSaves == []FollowCountsSaves /\ [][FollowStep]_vars

\* Two articles were saved and counted, the second had no next link.
C27_Witness ==
    /\ mode = "all" /\ stop = "nonext"
    /\ article_count = 2 /\ saves = 2 /\ Cardinality(saved) = 2

\* ------------------------------------------------- the crawl's URL list

\* The links of the pages fetched up to request k, in page order.
RECURSIVE FoundUrls(_)
FoundUrls(k) ==
    IF k = 0 THEN <<>> ELSE FoundUrls(k - 1) \o fetched_pages[k].links

\* The first place of a URL in a list that holds it.
FirstAt(u, list) ==
    CHOOSE k \in DOMAIN list : list[k] = u /\ \A j \in 1..(k - 1) : list[j] # u

\* C28: the URL file the crawl writes holds every URL found on a fetched
\* page exactly once and nothing else, in the order of the URLs' first
\* occurrences over the fetched pages taken in page order.
C28_UrlFileUniqueInFirstOrder ==
    (mode = "crawl" /\ output_file # NoFile) =>
        LET found == FoundUrls(Len(fetched_pages))
        IN /\ \A j, k \in DOMAIN fetched_pages :
                 j < k => fetched_pages[j].page < fetched_pages[k].page
           /\ NoDuplicates(output_file)
           /\ Range(output_file) = Range(found)
           /\ \A a, b \in DOMAIN output_file :
                 a < b <=> FirstAt(output_file[a], found) < FirstAt(output_file[b], found)

\* URL 2 was found on the first page, URLs 1 and 2 on a later one.
C28_Witness ==
    /\ mode = "crawl" /\ Done
    /\ output_file = <<2, 1>>
    /\ FoundUrls(Len(fetched_pages)) = <<2, 1, 2>>

\* ------------------------------------------------- the directory pass

\* The files of the directory with at least one matching image reference.
FilesWithMatches(among) == {k \in among : md_files[k] > 0}

\* The number of matches over a set of files.
RECURSIVE MatchesIn(_)
MatchesIn(among) ==
    IF among = {} THEN 0
    ELSE LET k == CHOOSE x \in among : TRUE
         IN md_files[k] + MatchesIn(among \ {k})

\* The pass has gone through every file and printed its summary.
PassFinished == mode = "convert" /\ Done /\ stop = "exhausted"

\* C29 as claimed: a dry run writes no file, a real run writes only files
\* with matches, and the reported figures are the number of matches over
\* all files and the number of files with a match.
C29_Orig_FiguresCoverAllFiles ==
    mode = "convert" =>
        /\ dry_run => written = {}
        /\ written \subseteq FilesWithMatches(DOMAIN md_files)
        /\ PassFinished =>
              /\ summary.total_conversions = MatchesIn(DOMAIN md_files)
              /\ summary.processed_files = Cardinality(FilesWithMatches(DOMAIN md_files))

\* C29 as amended: a dry run writes no file and a real run writes only
\* files with matches; the reported figures are the number of matches over
\* the files that could be read and the number of those with a match, in a
\* dry run as in a real one, whether or not a write failed.
C29_FiguresCoverReadFiles ==
    mode = "convert" =>
        LET read == (1..(file_idx - 1)) \ unread
        IN /\ dry_run => written = {}
           /\ written \subseteq FilesWithMatches(read)
           /\ total_conversions = MatchesIn(read)
           /\ processed_files = Cardinality(FilesWithMatches(read))
           /\ PassFinished =>
                 summary = [processed_files |-> processed_files,
                            total_conversions |-> total_conversions]

\* A real run over two files with matches: the first could not be written
\* back and is counted all the same.
C29_Witness ==
    /\ PassFinished /\ ~dry_run
    /\ md_files = <<2, 1>> /\ unread = {} /\ written = {2}
    /\ summary = [processed_files |-> 2, total_conversions |-> 3]

\* ------------------------------ scrape_pravenc.py: save_markdown in a run

MaxSaved == 2       \* URLs that one run comes to

\* URLs of a run: two that sanitize to the fallback name, an ID with and
\* without ".html", a slug in both cases, and a slug of its own.
RunUrls ==
    {ArticleUrlHead \o seg :
        seg \in {<<"!">>, <<"!", "!">>, <<"1">>, <<"1", ".html">>, <<"a">>, <<"A">>,
                 <<"a", "1">>}}

\* A file of the output directory; the content of an article's file is told
\* by the source_url of its front matter.
File(name, url) == [name |-> name, content |-> url]

\* A save that leaves an existing file as it is.
SaveMarkdownKeepExisting(files, name, url) ==
    IF \E f \in files : f.name = name THEN files ELSE files \cup {File(name, url)}

\* save_markdown: out_path.open("w") creates the file or truncates it.
SaveMarkdown(files, name, url) ==
    {f \in files : f.name # name} \cup {File(name, url)}

InitSave ==
    /\ IdleEntry("save")
    /\ IdleAbs /\ IdleFlat /\ IdleConv /\ IdleOtherThanSave
    /\ save_urls \in SeqsUpTo(RunUrls, MaxSaved)
    /\ save_idx = 1
    /\ out_files = {}
    /\ save_done = <<>>
    /\ save_count = 0
    /\ save_pc = "loop"

SaveGuard ==
    /\ mode = "save"
    /\ save_pc = "loop"
    /\ save_idx <= Len(save_urls)

\* The article is fetched and converted, its file is written and counted,
\* and the run goes on to the next URL.
SaveArticle ==
    /\ SaveGuard
    /\ out_files' = SaveMarkdown(out_files, UrlToBasename(save_urls[save_idx]),
                                 save_urls[save_idx])
    /\ save_done' = Append(save_done, save_urls[save_idx])
    /\ save_count' = save_count + 1
    /\ save_idx' = save_idx + 1
    /\ UNCHANGED <<save_urls, save_pc>>
    /\ UNCHANGED <<entryVars, absVars, flatVars, convVars, otherThanSave>>

\* The fetch or the conversion of the article raises: nothing is written or
\* counted and the run ends.
SaveBreak ==
    /\ SaveGuard
    /\ save_pc' = "done"
    /\ UNCHANGED <<save_urls, save_idx, out_files, save_done, save_count>>
    /\ UNCHANGED <<entryVars, absVars, flatVars, convVars, otherThanSave>>

\* No URL is left.
SaveEnd ==
    /\ mode = "save"
    /\ save_pc = "loop"
    /\ save_idx > Len(save_urls)
    /\ save_pc' = "done"
    /\ UNCHANGED <<save_urls, save_idx, out_files, save_done, save_count>>
    /\ UNCHANGED <<entryVars, absVars, flatVars, convVars, otherThanSave>>

NextSave == SaveArticle \/ SaveBreak \/ SaveEnd

SpecSave == InitSave /\ [][NextSave]_vars

\* The last save of a base name in the history.
LastSaveOf(name) ==
    CHOOSE k \in DOMAIN save_done :
        /\ UrlToBasename(save_done[k]) = name
        /\ \A j \in (k + 1)..Len(save_done) : UrlToBasename(save_done[j]) # name

\* C30: the output directory holds one file for each base name saved so
\* far, with the content of the last article saved under that name, and the
\* count is the number of saves: two saved URLs with one base name leave
\* one file, that of the later one, and are both counted.
C30_LaterSaveOverwrites ==
    /\ save_count = Len(save_done)
    /\ {f.name : f \in out_files} = {UrlToBasename(save_done[k]) : k \in DOMAIN save_done}
    /\ \A f, g \in out_files : f.name = g.name => f = g
    /\ \A f \in out_files : f.content = save_done[LastSaveOf(f.name)]

\* Two slugs without a character that a file name keeps were saved: one
\* file "article" with the second one's content, and a count of two.
C30_Witness ==
    /\ save_pc = "done"
    /\ save_urls = <<ArticleUrlHead \o <<"!">>, ArticleUrlHead \o <<"!", "!">>>>
    /\ save_count = 2
    /\ out_files = {File(<<"a", "r", "t", "i", "c", "l", "e">>, ArticleUrlHead \o <<"!", "!">>)}

=============================================================================
